---- MODULE Spec2Model ----
(***************************************************************************)
(* CodeGitAssistant: the commit-graph layout engine of the Git Graph view  *)
(* (GitGraphViewComponent.buildGraphData) and the branch-graph cache of    *)
(* GitService (getBranchGraph, getBranchGraphSnapshot,                     *)
(* clearBranchGraphCache and their helpers).                               *)
(*                                                                         *)
(* LayoutSpec runs buildGraphData on every small commit window,            *)
(* DivergeMergeSpec on the four-commit diverge-and-merge history and       *)
(* InvertedMergeSpec on a merge whose second parent sorts above it;        *)
(* ColourSpec runs getAvailableColour and MergeSpec runs                   *)
(* buildBranchGraphFromCommitMap on bounded inputs; Spec runs GitService   *)
(* against a small repository, two concurrent callers and a workspace      *)
(* storage that may be absent or fail.                                     *)
(***************************************************************************)
EXTENDS Integers, Sequences, FiniteSets, TLC

\* ------------------------------------------------------------------------
\* Bounds of the model
\* ------------------------------------------------------------------------

\* Largest number of dag nodes handed to one layout run.
MaxVertices == 3

\* Consecutive determinePath calls that neither bind a vertex nor advance a
\* parent cursor after which the model stops following the outer scan.
MaxIdle == 2

\* Commit timestamps (milliseconds) the dag nodes of a layout run may carry.
Timestamps == {1000, 2000}

\* Commits the repository may hold.
MaxRepoCommits == 3

\* GitService calls (getBranchGraph, getBranchGraphSnapshot,
\* clearBranchGraphCache) in one behaviour.
MaxCalls == 2

\* Collaborator calls (git, storage) that fail in one behaviour.
MaxFaults == 1

\* GitService.BRANCH_GRAPH_MAX_COMMITS, scaled down from 800.
BRANCH_GRAPH_MAX_COMMITS == 2

\* Branches opened in one run of getAvailableColour on its own.
MaxBranches == 3

\* The last row a Branch may start on in such a run.
MaxRow == 3

\* Names in one commit's branch set of the commit maps handed to merge
\* inference on its own.
MaxBranchesPerCommit == 2

\* The callers of GitService (refresh triggers and commands of the panel).
Callers == {1, 2}

\* Local branch names.
BranchNames == <<"feature", "main">>

VARIABLES
    \* ---- layout run (GitGraphViewComponent.buildGraphData) ----
    phase,            \* "off" | "input" | "scan" | "done"
    nodes,            \* dag.nodes in the order received: [hash, parents, timestamp]
    sortedHashes,     \* hashes by row
    vParents,         \* row -> rows of its parents (NullVertexId for the sentinel)
    vChildren,        \* row -> rows of its children
    nullChildren,     \* children of the sentinel vertex
    vx,               \* row -> Vertex.x
    vOnBranch,        \* row -> index of its Branch in branches, NoBranch if null
    vNextParent,      \* row -> Vertex.nextParent
    vNextX,           \* row -> Vertex.nextX
    vConnections,     \* row -> Vertex.connections
    branches,         \* Branch objects in creation order: [colorIndex, end, lines]
    availableColors,  \* colour slot -> row at which its last holder ended
    scanI,            \* the outer scan's i
    branchStart,      \* history: row at which each Branch was created
    idle,             \* history: determinePath calls in a row without progress
    \* ---- the repository (the git collaborator) ----
    commits,          \* hash -> [parents]; hash k is the k-th commit made, at time k
    refs,             \* branch name -> the hash it points to, 0 if it does not exist
    head,             \* the checked-out branch
    \* ---- GitService ----
    hasStorage,       \* this.storage is not null
    stored,           \* storage: head hash -> the value under branchGraph:<repo>:<hash>
    index,            \* storage: the value under branchGraphIndex:<repo>
    memCache,         \* this.cache entry 'branchGraph': <<>> or <<[data, expired]>>
    pc,               \* caller -> the await its GitService call is suspended at
    loc,              \* caller -> the locals of its call
    \* ---- history ----
    ret,              \* how the GitService call that settled last ended, until the
                      \* repository changes or a call that does not directly follow it starts
    memTag,           \* head hash the in-memory entry was built for or loaded from
    faults,           \* collaborator failures so far
    calls             \* getBranchGraph, getBranchGraphSnapshot and clearBranchGraphCache
                      \* calls so far

layoutVars == <<phase, nodes, sortedHashes, vParents, vChildren, nullChildren,
                vx, vOnBranch, vNextParent, vNextX, vConnections, branches,
                availableColors, scanI, branchStart, idle>>

cacheVars == <<commits, refs, head, hasStorage, stored, index, memCache, pc, loc, ret,
               memTag, faults, calls>>

vars == <<layoutVars, cacheVars>>

\* ------------------------------------------------------------------------
\* Layout: data
\* ------------------------------------------------------------------------

NullVertexId == -1
NoVertex == -2
NoBranch == 0
NoPoint == [x |-> -1, y |-> -1]
Hole == [connectsTo |-> NoVertex, onBranch |-> NoBranch]

NumRows == Len(sortedHashes)
Rows == 0 .. (NumRows - 1)

\* A parent list of the node at input position k: at most two parents, each a
\* node later in the list (git log lists children before parents) or 0, any
\* hash outside the loaded window; no loaded hash twice.
ParentLists(k, n) ==
    LET P == ((k + 1) .. n) \cup {0}
    IN  {<<>>} \cup {<<a>> : a \in P} \cup {s \in P \X P : IF s[1] = 0 THEN TRUE ELSE s[1] # s[2]}

\* The parent lists of the nodes at input positions k .. n of a window.
RECURSIVE ParentChoices(_, _)
ParentChoices(k, n) ==
    IF k > n THEN {<<>>}
    ELSE {<<pl>> \o rest : pl \in ParentLists(k, n), rest \in ParentChoices(k + 1, n)}

\* ns is a window of n dag nodes.
IsNodeList(ns, n) ==
    \E pl \in ParentChoices(1, n), ts \in [1 .. n -> Timestamps] :
        ns = [k \in 1 .. n |-> [hash |-> k, parents |-> pl[k], timestamp |-> ts[k]]]

\* ------------------------------------------------------------------------
\* Layout: graph construction (sort by timestamp, vertices, parent wiring)
\* ------------------------------------------------------------------------

\* Mutant of InsertByTimestamp: nd goes before the entries of its own
\* timestamp (a sort that is not stable).
RECURSIVE InsertByTimestamp_Unstable(_, _)
InsertByTimestamp_Unstable(sorted, nd) ==
    IF sorted = <<>> THEN <<nd>>
    ELSE IF sorted[1].timestamp > nd.timestamp
         THEN <<sorted[1]>> \o InsertByTimestamp_Unstable(Tail(sorted), nd)
         ELSE <<nd>> \o sorted

\* Array.prototype.sort with (a, b) => b.timestamp - a.timestamp: descending,
\* stable. InsertByTimestamp puts nd after every entry that is not older.
RECURSIVE InsertByTimestamp(_, _)
InsertByTimestamp(sorted, nd) ==
    IF sorted = <<>> THEN <<nd>>
    ELSE IF sorted[1].timestamp >= nd.timestamp
         THEN <<sorted[1]>> \o InsertByTimestamp(Tail(sorted), nd)
         ELSE <<nd>> \o sorted

RECURSIVE SortByTimestamp(_)
SortByTimestamp(ns) ==
    IF ns = <<>> THEN <<>>
    ELSE InsertByTimestamp(SortByTimestamp(SubSeq(ns, 1, Len(ns) - 1)), ns[Len(ns)])

SortedHashes(ns) ==
    LET s == SortByTimestamp(ns) IN [i \in 1 .. Len(s) |-> s[i].hash]

\* commitLookup[hash]: the row of hash, NoVertex when it is not in the window.
CommitLookup(sh, hash) ==
    IF \E i \in 1 .. Len(sh) : sh[i] = hash
    THEN (CHOOSE i \in 1 .. Len(sh) : sh[i] = hash) - 1
    ELSE NoVertex

NodeOf(ns, hash) == ns[CHOOSE k \in 1 .. Len(ns) : ns[k].hash = hash]

\* vertices[i].addParent(...) for each parent hash of row i: a hash that is not
\* in the window is wired to nullVertex.
WireParents(ns, sh) ==
    [i \in 0 .. (Len(sh) - 1) |->
        LET ps == NodeOf(ns, sh[i + 1]).parents
        IN  [j \in 1 .. Len(ps) |->
                IF CommitLookup(sh, ps[j]) = NoVertex THEN NullVertexId
                ELSE CommitLookup(sh, ps[j])]]

\* vertices[parentIndex].addChild(vertices[i]), in the order the wiring loop
\* visits rows i and their parents.
RECURSIVE ChildrenFrom(_, _, _, _)
ChildrenFrom(vp, target, i, n) ==
    IF i >= n THEN <<>>
    ELSE SelectSeq([j \in 1 .. Len(vp[i]) |-> IF vp[i][j] = target THEN i ELSE NoVertex],
                   LAMBDA c : c # NoVertex)
         \o ChildrenFrom(vp, target, i + 1, n)

WireChildren(vp, n) == [r \in 0 .. (n - 1) |-> ChildrenFrom(vp, r, 0, n)]

\* ------------------------------------------------------------------------
\* Layout: Vertex and Branch methods over the layout record
\*   st = [x, onBranch, nextParent, nextX, connections, branches, colors]
\* ------------------------------------------------------------------------

CurLayout ==
    [x |-> vx, onBranch |-> vOnBranch, nextParent |-> vNextParent,
     nextX |-> vNextX, connections |-> vConnections, branches |-> branches,
     colors |-> availableColors]

GetNextParent(st, v) ==
    IF st.nextParent[v] < Len(vParents[v]) THEN vParents[v][st.nextParent[v] + 1]
    ELSE NoVertex

\* Mutant of RegisterParentProcessed: the cursor stays.
RegisterParentProcessed_Skip(st, v) == st

RegisterParentProcessed(st, v) ==
    [st EXCEPT !.nextParent[v] = @ + 1]

IsMerge(v) == Len(vParents[v]) > 1

IsNotOnBranch(st, v) == st.onBranch[v] = NoBranch

\* Mutant of AddToBranch: stores the vertex's next free track instead of x.
AddToBranch_NextX(st, v, b, x) ==
    IF st.onBranch[v] = NoBranch
    THEN [st EXCEPT !.onBranch[v] = b, !.x[v] = st.nextX[v]]
    ELSE st

AddToBranch(st, v, b, x) ==
    IF st.onBranch[v] = NoBranch
    THEN [st EXCEPT !.onBranch[v] = b, !.x[v] = x]
    ELSE st

GetPoint(st, v) == [x |-> st.x[v], y |-> v]

GetNextPoint(st, v) == [x |-> st.nextX[v], y |-> v]

GetPointConnectingTo(st, v, target, b) ==
    LET c == st.connections[v]
        hits == {i \in 1 .. Len(c) : c[i] # Hole /\ c[i].connectsTo = target
                                      /\ c[i].onBranch = b}
    IN  IF hits = {} THEN NoPoint
        ELSE [x |-> (CHOOSE i \in hits : \A j \in hits : i <= j) - 1, y |-> v]

RegisterUnavailablePoint(st, v, x, target, b) ==
    IF x = st.nextX[v]
    THEN LET c == st.connections[v]
             padded == [i \in 1 .. (IF Len(c) <= x THEN x + 1 ELSE Len(c)) |->
                            IF i <= Len(c) THEN c[i] ELSE Hole]
         IN  [st EXCEPT !.nextX[v] = x + 1,
                        !.connections[v] =
                            [padded EXCEPT ![x + 1] = [connectsTo |-> target, onBranch |-> b]]]
    ELSE st

\* Mutant of AddLine: the segment is stored with its endpoints exchanged.
AddLine_Reversed(st, b, p1, p2, isCommitted, lockedFirst) ==
    [st EXCEPT !.branches[b].lines =
        Append(@, [p1 |-> p2, p2 |-> p1, isCommitted |-> isCommitted,
                   lockedFirst |-> lockedFirst])]

AddLine(st, b, p1, p2, isCommitted, lockedFirst) ==
    [st EXCEPT !.branches[b].lines =
        Append(@, [p1 |-> p1, p2 |-> p2, isCommitted |-> isCommitted,
                   lockedFirst |-> lockedFirst])]

\* Mutant of GetAvailableColour: takes the highest free slot, not the lowest.
GetAvailableColour_LastFit(startAt, colors) ==
    LET free == {i \in 1 .. Len(colors) : startAt > colors[i]}
    IN  IF free # {}
        THEN [index |-> (CHOOSE i \in free : \A j \in free : i >= j) - 1, colors |-> colors]
        ELSE [index |-> Len(colors), colors |-> Append(colors, 0)]

\* Mutant of GetAvailableColour: recycles a slot whose holder ended at startAt.
GetAvailableColour_NotStrict(startAt, colors) ==
    LET free == {i \in 1 .. Len(colors) : startAt >= colors[i]}
    IN  IF free # {}
        THEN [index |-> (CHOOSE i \in free : \A j \in free : i <= j) - 1, colors |-> colors]
        ELSE [index |-> Len(colors), colors |-> Append(colors, 0)]

\* getAvailableColour: [index, colors]; the first slot whose holder ended
\* before startAt, else a new slot (pushed holding 0).
GetAvailableColour(startAt, colors) ==
    LET free == {i \in 1 .. Len(colors) : startAt > colors[i]}
    IN  IF free # {}
        THEN [index |-> (CHOOSE i \in free : \A j \in free : i <= j) - 1, colors |-> colors]
        ELSE [index |-> Len(colors), colors |-> Append(colors, 0)]

\* ------------------------------------------------------------------------
\* Layout: determinePath
\* ------------------------------------------------------------------------

\* The merge case's scan, from row i: segments on the parent's Branch until a
\* row resolves the connection to parentVertex.
RECURSIVE MergeScan(_, _, _, _, _, _)
MergeScan(st, i, vertex, parentVertex, parentBranch, lastPoint) ==
    IF i >= NumRows THEN st
    ELSE LET existingPoint == GetPointConnectingTo(st, i, parentVertex, parentBranch)
             found == existingPoint # NoPoint \/ i = parentVertex
             curPoint == IF existingPoint # NoPoint THEN existingPoint
                         ELSE IF i = parentVertex THEN GetPoint(st, i)
                         ELSE GetNextPoint(st, i)
             lockedFirst == IF ~found /\ i # parentVertex
                            THEN lastPoint.x < curPoint.x ELSE TRUE
             s1 == AddLine(st, parentBranch, lastPoint, curPoint, TRUE, lockedFirst)
             s2 == RegisterUnavailablePoint(s1, i, curPoint.x, parentVertex, parentBranch)
         IN  IF found THEN RegisterParentProcessed(s2, vertex)
             ELSE MergeScan(s2, i + 1, vertex, parentVertex, parentBranch, curPoint)

\* The normal case's walk, from row i, on Branch b:
\* [st, i, vertex, parentVertex] as the loop leaves them.
RECURSIVE NormalWalk(_, _, _, _, _, _)
NormalWalk(st, i, vertex, parentVertex, lastPoint, b) ==
    IF i >= NumRows
    THEN [st |-> st, i |-> i, vertex |-> vertex, parentVertex |-> parentVertex]
    ELSE LET curPoint == IF parentVertex = i /\ ~IsNotOnBranch(st, parentVertex)
                         THEN GetPoint(st, i) ELSE GetNextPoint(st, i)
             lockedFirst == lastPoint.x < curPoint.x
             s1 == AddLine(st, b, lastPoint, curPoint, TRUE, lockedFirst)
             s2 == RegisterUnavailablePoint(s1, i, curPoint.x, parentVertex, b)
         IN  IF parentVertex = i
             THEN LET s3 == RegisterParentProcessed(s2, vertex)
                      parentVertexOnBranch == ~IsNotOnBranch(s3, parentVertex)
                      s4 == AddToBranch(s3, parentVertex, b, curPoint.x)
                      nextParent == GetNextParent(s4, parentVertex)
                  IN  IF nextParent = NoVertex \/ parentVertexOnBranch
                      THEN [st |-> s4, i |-> i, vertex |-> parentVertex,
                            parentVertex |-> nextParent]
                      ELSE NormalWalk(s4, i + 1, parentVertex, nextParent, curPoint, b)
             ELSE NormalWalk(s2, i + 1, vertex, parentVertex, curPoint, b)

\* A new Branch(colorIndex): its index in creation order.
NewBranch(st, colorIndex) ==
    [st EXCEPT !.branches = Append(@, [colorIndex |-> colorIndex, end |-> 0, lines |-> <<>>])]

MergeCase(st, startAt) ==
    LET parentVertex == GetNextParent(st, startAt)
    IN  MergeScan(st, startAt + 1, startAt, parentVertex, st.onBranch[parentVertex],
                  GetPoint(st, startAt))

NormalCase(st, startAt) ==
    LET parentVertex == GetNextParent(st, startAt)
        lastPoint == IF IsNotOnBranch(st, startAt) THEN GetNextPoint(st, startAt)
                     ELSE GetPoint(st, startAt)
        col == GetAvailableColour(startAt, st.colors)
        s0 == NewBranch([st EXCEPT !.colors = col.colors], col.index)
        b == Len(s0.branches)
        s1 == AddToBranch(s0, startAt, b, lastPoint.x)
        s2 == RegisterUnavailablePoint(s1, startAt, lastPoint.x, startAt, b)
        w == NormalWalk(s2, startAt + 1, startAt, parentVertex, lastPoint, b)
        s3 == IF w.i = NumRows /\ w.parentVertex # NoVertex /\ w.parentVertex = NullVertexId
              THEN RegisterParentProcessed(w.st, w.vertex) ELSE w.st
    IN  [s3 EXCEPT !.branches[b].end = w.i, !.colors[col.index + 1] = w.i]

TakesMergeCase(st, startAt) ==
    LET parentVertex == GetNextParent(st, startAt)
    IN  /\ parentVertex # NoVertex
        /\ parentVertex # NullVertexId
        /\ IsMerge(startAt)
        /\ ~IsNotOnBranch(st, startAt)
        /\ ~IsNotOnBranch(st, parentVertex)

DeterminePath(st, startAt) ==
    IF TakesMergeCase(st, startAt) THEN MergeCase(st, startAt)
    ELSE NormalCase(st, startAt)

\* The completion sweep, from row i: a singleton Branch for each vertex that
\* is still unbound.
RECURSIVE SweepFrom(_, _)
SweepFrom(st, i) ==
    IF i >= NumRows THEN st
    ELSE IF IsNotOnBranch(st, i)
         THEN LET col == GetAvailableColour(i, st.colors)
                  s0 == NewBranch([st EXCEPT !.colors = col.colors], col.index)
                  b == Len(s0.branches)
                  point == GetNextPoint(s0, i)
                  s1 == AddToBranch(s0, i, b, point.x)
                  s2 == RegisterUnavailablePoint(s1, i, point.x, i, b)
              IN  SweepFrom([s2 EXCEPT !.branches[b].end = i + 1,
                                       !.colors[col.index + 1] = i], i + 1)
         ELSE SweepFrom(st, i + 1)

\* ------------------------------------------------------------------------
\* Layout: the run
\* ------------------------------------------------------------------------

\* History: what the outer scan's termination argument counts.
Progress(st) ==
    Cardinality({v \in DOMAIN st.onBranch : st.onBranch[v] # NoBranch})
    + Cardinality({<<v, k>> \in (DOMAIN st.nextParent) \X (1 .. 2) : k <= st.nextParent[v]})

SetLayout(st) ==
    /\ vx' = st.x
    /\ vOnBranch' = st.onBranch
    /\ vNextParent' = st.nextParent
    /\ vNextX' = st.nextX
    /\ vConnections' = st.connections
    /\ branches' = st.branches
    /\ availableColors' = st.colors

\* buildGraphData has been handed its nodes and has not started.
LayoutStart ==
    /\ phase = "input"
    /\ sortedHashes = <<>>
    /\ vParents = <<>>
    /\ vChildren = <<>>
    /\ nullChildren = <<>>
    /\ vx = <<>>
    /\ vOnBranch = <<>>
    /\ vNextParent = <<>>
    /\ vNextX = <<>>
    /\ vConnections = <<>>
    /\ branches = <<>>
    /\ availableColors = <<>>
    /\ scanI = 0
    /\ branchStart = <<>>
    /\ idle = 0
    /\ commits = <<>>
    /\ refs = <<>>
    /\ head = ""
    /\ hasStorage = FALSE
    /\ stored = <<>>
    /\ index = <<>>
    /\ memCache = <<>>
    /\ pc = <<>>
    /\ loc = <<>>
    /\ ret = <<>>
    /\ memTag = 0
    /\ faults = 0
    /\ calls = 0

LayoutInit ==
    /\ \E n \in 1 .. MaxVertices : IsNodeList(nodes, n)
    /\ LayoutStart

\* buildGraphData up to the outer scan: rows, vertices, parent/child wiring.
BuildGraph ==
    /\ phase = "input"
    /\ UNCHANGED cacheVars
    /\ LET sh == SortedHashes(nodes)
           n == Len(sh)
           vp == WireParents(nodes, sh)
       IN  /\ sortedHashes' = sh
           /\ vParents' = vp
           /\ vChildren' = WireChildren(vp, n)
           /\ nullChildren' = <<>>
           /\ vx' = [r \in 0 .. (n - 1) |-> 0]
           /\ vOnBranch' = [r \in 0 .. (n - 1) |-> NoBranch]
           /\ vNextParent' = [r \in 0 .. (n - 1) |-> 0]
           /\ vNextX' = [r \in 0 .. (n - 1) |-> 0]
           /\ vConnections' = [r \in 0 .. (n - 1) |-> <<>>]
    /\ phase' = "scan"
    /\ UNCHANGED <<nodes, branches, availableColors, scanI, branchStart, idle>>

\* Mutant of ScanNeedsPath: an unbound vertex without parents is passed over.
ScanNeedsPath_ParentsOnly(st, i) == GetNextParent(st, i) # NoVertex

ScanNeedsPath(st, i) ==
    IF GetNextParent(st, i) # NoVertex THEN TRUE ELSE IsNotOnBranch(st, i)

\* One iteration of the outer scan that calls determinePath(i).
ScanDeterminePath ==
    /\ phase = "scan"
    /\ UNCHANGED cacheVars
    /\ scanI < NumRows
    /\ ScanNeedsPath(CurLayout, scanI)
    /\ idle < MaxIdle
    /\ LET st == DeterminePath(CurLayout, scanI)
       IN  /\ SetLayout(st)
           /\ branchStart' = IF Len(st.branches) > Len(branches)
                             THEN Append(branchStart, scanI) ELSE branchStart
           /\ idle' = IF Progress(st) > Progress(CurLayout) THEN 0 ELSE idle + 1
    /\ UNCHANGED <<phase, nodes, sortedHashes, vParents, vChildren, nullChildren, scanI>>

\* One iteration of the outer scan that moves to the next row.
ScanAdvance ==
    /\ phase = "scan"
    /\ UNCHANGED cacheVars
    /\ scanI < NumRows
    /\ ~ScanNeedsPath(CurLayout, scanI)
    /\ scanI' = scanI + 1
    /\ UNCHANGED <<phase, nodes, sortedHashes, vParents, vChildren, nullChildren,
                   vx, vOnBranch, vNextParent, vNextX, vConnections, branches,
                   availableColors, branchStart, idle>>

\* The outer scan has left its loop: the completion sweep, and the run ends.
CompletionSweep ==
    /\ phase = "scan"
    /\ UNCHANGED cacheVars
    /\ scanI >= NumRows
    /\ LET st == SweepFrom(CurLayout, 0)
       IN  /\ SetLayout(st)
           /\ branchStart' = branchStart
                \o [k \in 1 .. (Len(st.branches) - Len(branches)) |->
                        CHOOSE r \in Rows : st.onBranch[r] = Len(branches) + k]
    /\ phase' = "done"
    /\ UNCHANGED <<nodes, sortedHashes, vParents, vChildren, nullChildren, scanI, idle>>

LayoutNext == BuildGraph \/ ScanDeterminePath \/ ScanAdvance \/ CompletionSweep

LayoutSpec == LayoutInit /\ [][LayoutNext]_vars

\* ------------------------------------------------------------------------
\* Layout: the diverge-and-merge history
\* ------------------------------------------------------------------------

\* c1 on main, c2 on feature off c1, c3 on main off c1, merge c4 with parents
\* [c3, c2]; hash k stands for ck.
DivergeMergeParents == <<(<<>>), <<1>>, <<1>>, <<3, 2>>>>

\* The four commits in any input order and with any timestamps under which
\* the sort puts c4 on the first row and c1 on the last.
DivergeMergeInit ==
    /\ \E order \in Permutations(1 .. 4), ts \in [1 .. 4 -> Timestamps] :
        /\ nodes = [k \in 1 .. 4 |->
                        [hash |-> order[k], parents |-> DivergeMergeParents[order[k]],
                         timestamp |-> ts[order[k]]]]
        /\ SortedHashes(nodes)[1] = 4
        /\ SortedHashes(nodes)[4] = 1
    /\ LayoutStart

DivergeMergeSpec == DivergeMergeInit /\ [][LayoutNext]_vars

\* The history of a merge whose second parent sorts above it: c3 (parent c4)
\* and the root c4 carry later committer timestamps than the merge c1
\* (parents c2, c3) and the root c2, so the rows are c3, c4, c1, c2.
InvertedMergeParents == <<(<<2, 3>>), <<>>, <<4>>, <<>>>>

InvertedMergeInit ==
    /\ \E order \in Permutations(1 .. 4), ts \in [1 .. 4 -> Timestamps] :
        /\ nodes = [k \in 1 .. 4 |->
                      [hash |-> order[k], parents |-> InvertedMergeParents[order[k]],
                       timestamp |-> ts[order[k]]]]
        /\ SortedHashes(nodes) = <<3, 4, 1, 2>>
    /\ LayoutStart

InvertedMergeSpec == InvertedMergeInit /\ [][LayoutNext]_vars

\* ------------------------------------------------------------------------
\* Layout: properties
\* ------------------------------------------------------------------------

AllBound == \A r \in Rows : vOnBranch[r] # NoBranch

\* The Lines of Branch b that have point p as an endpoint.
LinesAt(b, p) ==
    {k \in 1 .. Len(branches[b].lines) :
        branches[b].lines[k].p1 = p \/ branches[b].lines[k].p2 = p}

\* The outer scan keeps calling determinePath on one row, and the last MaxIdle
\* calls bound no vertex and advanced no parent cursor.
ScanStalled ==
    /\ phase = "scan"
    /\ scanI < NumRows
    /\ ScanNeedsPath(CurLayout, scanI)
    /\ idle >= MaxIdle

\* C4: Total binding. The layout run finishes (the outer scan leaves its loop
\* and the completion sweep runs), and at its end every vertex is bound to a
\* Branch. Stated on finite runs: the outer scan never stalls on a row, and
\* a run that has ended has every vertex bound.
C4_TotalBinding ==
    /\ phase = "done" => AllBound
    /\ ~ScanStalled

\* C5: Colour lifetime. No two Branches with the same colorIndex have
\* overlapping [start, end) row ranges, and a Branch that takes a colour slot
\* at row s finds every earlier holder's end strictly below s.
C5_ColourLifetime ==
    \A a \in 1 .. Len(branches) : \A b \in 1 .. Len(branches) :
        (a < b /\ branches[a].colorIndex = branches[b].colorIndex)
            => /\ branches[a].end < branchStart[b]
               /\ (branches[a].end <= branchStart[b] \/ branches[b].end <= branchStart[a])

\* A finished run in which a colour slot was recycled.
C5_Witness ==
    /\ phase = "done"
    /\ \E a \in 1 .. Len(branches) : \E b \in 1 .. Len(branches) :
            a < b /\ branches[a].colorIndex = branches[b].colorIndex

\* C6 as stated: at the end of a run, each vertex's point (x, row) is an
\* endpoint of exactly one Line of the Branch the vertex is bound to.
C6_ExactlyOneLine ==
    phase = "done" =>
        \A r \in Rows :
            vOnBranch[r] # NoBranch
            /\ Cardinality(LinesAt(vOnBranch[r], [x |-> vx[r], y |-> r])) = 1

\* C6 as amended: at the end of a run, each vertex's point (x, row) is an
\* endpoint of at least one Line of the Branch the vertex is bound to, unless
\* that Branch has no Lines, which only a Branch started on the last row has.
C6_Connectivity ==
    phase = "done" =>
        \A r \in Rows :
            /\ vOnBranch[r] # NoBranch
            /\ \/ LinesAt(vOnBranch[r], [x |-> vx[r], y |-> r]) # {}
               \/ /\ branches[vOnBranch[r]].lines = <<>>
                  /\ r = NumRows - 1
                  /\ branchStart[vOnBranch[r]] = r

\* A finished run with a vertex that is the endpoint of two Lines of its
\* Branch, and one with a Branch that has no Lines.
C6_Witness ==
    /\ phase = "done"
    /\ \E r \in Rows :
            vOnBranch[r] # NoBranch
            /\ Cardinality(LinesAt(vOnBranch[r], [x |-> vx[r], y |-> r])) >= 2
    /\ \E r \in Rows :
            vOnBranch[r] # NoBranch /\ branches[vOnBranch[r]].lines = <<>>

\* The row of the commit with this hash.
RowOf(hash) == CommitLookup(sortedHashes, hash)

\* The colour slots with every slot but that of colorIndex held beyond the
\* last row.
OnlySlotFree(colorIndex) ==
    [i \in 1 .. Len(availableColors) |->
        IF i = colorIndex + 1 THEN availableColors[i] ELSE NumRows + 2]

\* C14 (diverge and merge): the layout of c1, c2 (feature off c1), c3 (main
\* off c1) and merge c4 with parents [c3, c2] ends with exactly two Branches
\* of distinct colours, c4, c3 and c1 bound to one and c2 to the other, and
\* getAvailableColour hands the second Branch's slot only to a Branch that
\* starts at a row strictly greater than that Branch's end.
C14_DivergeMerge ==
    phase = "done" =>
        /\ Len(branches) = 2
        /\ branches[1].colorIndex # branches[2].colorIndex
        /\ vOnBranch[RowOf(4)] # NoBranch
        /\ vOnBranch[RowOf(3)] = vOnBranch[RowOf(4)]
        /\ vOnBranch[RowOf(1)] = vOnBranch[RowOf(4)]
        /\ vOnBranch[RowOf(2)] # NoBranch
        /\ vOnBranch[RowOf(2)] # vOnBranch[RowOf(4)]
        /\ LET second == branches[vOnBranch[RowOf(2)]]
           IN  \A startAt \in 0 .. (NumRows + 1) :
                    GetAvailableColour(startAt, OnlySlotFree(second.colorIndex)).index
                        = second.colorIndex
                    => startAt > second.end

\* C14 witness: the run has ended with c3 above c2, the feature Branch
\* holding the second colour, and a later start row at which that colour is
\* handed out again.
C14_Witness ==
    /\ phase = "done"
    /\ sortedHashes = <<4, 3, 2, 1>>
    /\ Len(branches) = 2
    /\ branches[vOnBranch[RowOf(2)]].colorIndex = 1
    /\ \E startAt \in 0 .. (NumRows + 1) :
            GetAvailableColour(startAt, OnlySlotFree(1)).index = 1

\* ------------------------------------------------------------------------
\* The repository: what the git collaborator answers
\* ------------------------------------------------------------------------

Hashes == 1 .. MaxRepoCommits

\* The commits reachable from hash h (h = 0: none). Parents are older commits.
RECURSIVE Ancestors(_)
Ancestors(h) ==
    IF h = 0 THEN {}
    ELSE {h} \cup UNION {Ancestors(commits[h].parents[j]) : j \in 1 .. Len(commits[h].parents)}

\* git rev-parse HEAD: 0 when HEAD names no commit (the call fails).
HeadHash == refs[head]

\* Mutant of GitIsAncestor: every commit passes.
GitIsAncestor_Always(a, d) == TRUE

\* git merge-base --is-ancestor a d
GitIsAncestor(a, d) == a \in Ancestors(d)

\* The hashes of set S, newest first (--date-order: commit k was made at time k).
RECURSIVE NewestFirst(_)
NewestFirst(S) ==
    IF S = {} THEN <<>>
    ELSE LET m == CHOOSE x \in S : \A y \in S : y <= x
         IN  <<m>> \o NewestFirst(S \ {m})

\* %D with --decorate=full: "HEAD -> refs/heads/<current>" first, then
\* "refs/heads/<name>" for the other branches at the commit.
Decorations(h) ==
    (IF refs[head] = h THEN <<[headArrow |-> TRUE, name |-> head]>> ELSE <<>>)
    \o SelectSeq([i \in 1 .. Len(BranchNames) |-> [headArrow |-> FALSE, name |-> BranchNames[i]]],
                 LAMBDA d : d.name # head /\ refs[d.name] = h)

\* One record of --format=%H%x00%P%x00%D%x00%ct
LogLine(h) == [hash |-> h, parents |-> commits[h].parents, refs |-> Decorations(h), ct |-> h]

LogLines(hs) == [i \in 1 .. Len(hs) |-> LogLine(hs[i])]

\* git log --all --max-count=n --topo-order --date-order
GitLogAll(n) ==
    LET all == NewestFirst(UNION {Ancestors(refs[BranchNames[i]]) : i \in 1 .. Len(BranchNames)})
    IN  LogLines(SubSeq(all, 1, IF Len(all) < n THEN Len(all) ELSE n))

\* git log base..headHash --topo-order --date-order
GitLogRange(base, headHash) ==
    LogLines(NewestFirst(Ancestors(headHash) \ Ancestors(base)))

\* git.branch(): the local branches, and the current one ("" on an unborn HEAD).
GitBranchSummary ==
    [all |-> SelectSeq(BranchNames, LAMBDA b : refs[b] # 0),
     current |-> IF refs[head] # 0 THEN head ELSE ""]

\* ------------------------------------------------------------------------
\* GitService: pure helpers
\* ------------------------------------------------------------------------

\* Map.set on an insertion-ordered Map kept as a sequence of entries.
MapSet(m, entry) ==
    IF \E i \in 1 .. Len(m) : m[i].hash = entry.hash
    THEN [i \in 1 .. Len(m) |-> IF m[i].hash = entry.hash THEN entry ELSE m[i]]
    ELSE Append(m, entry)

MapHas(m, hash) == \E i \in 1 .. Len(m) : m[i].hash = hash

MapGet(m, hash) == m[CHOOSE i \in 1 .. Len(m) : m[i].hash = hash]

SeqHas(sq, x) == \E i \in 1 .. Len(sq) : sq[i] = x

\* parseGitLogToCommitMap: only refs that start with refs/heads/ name a
\* branch (a "HEAD -> refs/heads/x" entry does not); %ct seconds to ms.
RECURSIVE ParseGitLogToCommitMap(_)
ParseGitLogToCommitMap(lines) ==
    IF lines = <<>> THEN <<>>
    ELSE LET line == lines[Len(lines)]
             kept == SelectSeq(line.refs, LAMBDA d : ~d.headArrow)
             info == [hash |-> line.hash, parents |-> line.parents,
                      timestamp |-> line.ct * 1000,
                      branches |-> [i \in 1 .. Len(kept) |-> kept[i].name]]
         IN  MapSet(ParseGitLogToCommitMap(SubSeq(lines, 1, Len(lines) - 1)), info)

\* Mutant of EnforceCommitLimit: evicts the entries inserted first.
EnforceCommitLimit_First(m) ==
    IF Len(m) > BRANCH_GRAPH_MAX_COMMITS
    THEN SubSeq(m, Len(m) - BRANCH_GRAPH_MAX_COMMITS + 1, Len(m))
    ELSE m

\* Mutant of EnforceCommitLimit: never evicts.
EnforceCommitLimit_Off(m) == m

\* enforceCommitLimit: delete the last key while the map is over the limit.
RECURSIVE EnforceCommitLimit(_)
EnforceCommitLimit(m) ==
    IF Len(m) > BRANCH_GRAPH_MAX_COMMITS
    THEN EnforceCommitLimit(SubSeq(m, 1, Len(m) - 1))
    ELSE m

\* Mutant of InferMerge: every name on parent 2 is a "from" candidate.
InferMerge_AnyFrom(m, node, currentBranch, merges) ==
    IF Len(node.parents) >= 2 /\ MapHas(m, node.parents[1]) /\ MapHas(m, node.parents[2])
    THEN LET first == MapGet(m, node.parents[1])
             second == MapGet(m, node.parents[2])
             toCand == SelectSeq(node.branches,
                         LAMBDA b : SeqHas(first.branches, b) /\ ~SeqHas(second.branches, b))
             fromCand == second.branches
         IN  IF Len(toCand) > 0 /\ Len(fromCand) > 0
             THEN LET toBranch == IF SeqHas(toCand, currentBranch) THEN currentBranch
                                  ELSE toCand[1]
                      fromBranch == fromCand[1]
                  IN  IF fromBranch # toBranch
                         /\ ~\E k \in 1 .. Len(merges) :
                                merges[k].from = fromBranch /\ merges[k].to = toBranch
                      THEN <<[from |-> fromBranch, to |-> toBranch, commit |-> node.hash,
                              type |-> "three-way", timestamp |-> node.timestamp]>>
                      ELSE <<>>
             ELSE <<>>
    ELSE <<>>

\* The merge edge buildBranchGraphFromCommitMap infers at one commit, as a
\* sequence of at most one edge, given the edges found so far.
InferMerge(m, node, currentBranch, merges) ==
    IF Len(node.parents) >= 2 /\ MapHas(m, node.parents[1]) /\ MapHas(m, node.parents[2])
    THEN LET first == MapGet(m, node.parents[1])
             second == MapGet(m, node.parents[2])
             toCand == SelectSeq(node.branches,
                         LAMBDA b : SeqHas(first.branches, b) /\ ~SeqHas(second.branches, b))
             fromCand == SelectSeq(second.branches,
                         LAMBDA b : IF SeqHas(first.branches, b)
                                    THEN SeqHas(node.branches, b) /\ ~SeqHas(toCand, b)
                                    ELSE TRUE)
         IN  IF Len(toCand) > 0 /\ Len(fromCand) > 0
             THEN LET toBranch == IF SeqHas(toCand, currentBranch) THEN currentBranch
                                  ELSE toCand[1]
                      fromBranch == fromCand[1]
                  IN  IF fromBranch # toBranch
                         /\ ~\E k \in 1 .. Len(merges) :
                                merges[k].from = fromBranch /\ merges[k].to = toBranch
                      THEN <<[from |-> fromBranch, to |-> toBranch, commit |-> node.hash,
                              type |-> "three-way", timestamp |-> node.timestamp]>>
                      ELSE <<>>
             ELSE <<>>
    ELSE <<>>

RECURSIVE InferMerges(_, _, _)
InferMerges(m, k, currentBranch) ==
    IF k = 0 THEN <<>>
    ELSE LET before == InferMerges(m, k - 1, currentBranch)
         IN  before \o InferMerge(m, m[k], currentBranch, before)

RECURSIVE DagLinks(_, _)
DagLinks(m, k) ==
    IF k = 0 THEN <<>>
    ELSE DagLinks(m, k - 1)
         \o [j \in 1 .. Len(m[k].parents) |-> [source |-> m[k].parents[j], target |-> m[k].hash]]

\* buildBranchGraphFromCommitMap (MergeHistory holds no recorded merge).
BuildBranchGraphFromCommitMap(m, summary) ==
    LET currentBranch == IF summary.current # "" THEN summary.current ELSE "main"
    IN  [branches |-> summary.all,
         merges |-> InferMerges(m, Len(m), currentBranch),
         currentBranch |-> currentBranch,
         dag |-> [nodes |-> [k \in 1 .. Len(m) |->
                                [hash |-> m[k].hash, parents |-> m[k].parents,
                                 branches |-> m[k].branches, timestamp |-> m[k].timestamp,
                                 isMerge |-> Len(m[k].parents) >= 2]],
                  links |-> DagLinks(m, Len(m))]]

\* What buildFullBranchGraph returns from its catch block.
EmptyGraph ==
    [branches |-> <<>>, merges |-> <<>>, currentBranch |-> "",
     dag |-> [nodes |-> <<>>, links |-> <<>>]]

\* buildFullBranchGraph after both awaits: the graph for the parsed commits.
FullGraphOf(m, summary) ==
    IF Len(m) = 0
    THEN [branches |-> summary.all, merges |-> <<>>, currentBranch |-> summary.current,
          dag |-> [nodes |-> <<>>, links |-> <<>>]]
    ELSE BuildBranchGraphFromCommitMap(m, summary)

\* buildBranchGraphIncrementally: the new commits first, then the base
\* snapshot's nodes that are not among them.
RECURSIVE CombineWithBase(_, _, _)
CombineWithBase(m, baseNodes, k) ==
    IF k > Len(baseNodes) THEN m
    ELSE CombineWithBase(
            IF MapHas(m, baseNodes[k].hash) THEN m
            ELSE MapSet(m, [hash |-> baseNodes[k].hash, parents |-> baseNodes[k].parents,
                            timestamp |-> baseNodes[k].timestamp,
                            branches |-> baseNodes[k].branches]),
            baseNodes, k + 1)

\* buildBranchGraphIncrementally after both awaits.
IncrementalGraphOf(baseGraph, newCommits, summary) ==
    LET combined == CombineWithBase(newCommits, baseGraph.dag.nodes, 1)
    IN  IF Len(combined) = 0
        THEN [baseGraph EXCEPT !.branches = summary.all,
                               !.currentBranch = IF summary.current # "" THEN summary.current
                                                 ELSE baseGraph.currentBranch]
        ELSE BuildBranchGraphFromCommitMap(EnforceCommitLimit(combined), summary)

\* ------------------------------------------------------------------------
\* GitService: caches
\* ------------------------------------------------------------------------

\* setCache: the entry under 'branchGraph'; expired stands for
\* Date.now() - timestamp > ttl.
SetCache_Empty(data) == <<[data |-> EmptyGraph, expired |-> FALSE]>>

SetCache(data) == <<[data |-> data, expired |-> FALSE]>>

\* getCached finds a live entry.
CacheHit == memCache # <<>> /\ ~memCache[1].expired

\* The cache after getCached: an expired entry is deleted.
AfterGetCached == IF memCache # <<>> /\ memCache[1].expired THEN <<>> ELSE memCache

\* Mutant of StorageUpdate: a snapshot already persisted under the hash is
\* kept.
StorageUpdate_KeepExisting(st, headHash, data) ==
    IF headHash \in DOMAIN st THEN st
    ELSE [h \in DOMAIN st \cup {headHash} |-> IF h = headHash THEN data ELSE st[h]]

\* Mutant of StorageUpdate: nothing is written.
StorageUpdate_Skip(st, headHash, data) == st

\* storage.update(branchGraph:<repoId>:<headHash>, data): a Memento changes
\* the value its get returns when update is called; the promise update
\* returns settles later, and that is where a failed write shows.
StorageUpdate(st, headHash, data) ==
    [h \in DOMAIN st \cup {headHash} |-> IF h = headHash THEN data ELSE st[h]]

\* loadBranchGraphFromStorage finds a snapshot.
HasPersisted(headHash) == hasStorage /\ headHash # 0 /\ headHash \in DOMAIN stored

\* saveBranchGraphToStorage: existingIndex.includes(headHash).
ExistingIndexIncludes_Never(existingIndex, headHash) == FALSE

ExistingIndexIncludes(existingIndex, headHash) == SeqHas(existingIndex, headHash)

\* loadBranchGraphFromStorage: the stored snapshot, or null (the empty
\* sequence).
LoadBranchGraphFromStorage_Miss(headHash) == <<>>

LoadBranchGraphFromStorage(headHash) ==
    IF HasPersisted(headHash) THEN <<stored[headHash]>> ELSE <<>>

\* storage.update(branchGraph:<repoId>:<hash>, undefined): the key is gone.
StorageRemove(st, hash) == [h \in DOMAIN st \ {hash} |-> st[h]]

\* tryBuildIncrementalBranchGraph: the index position of the next candidate,
\* scanning from i down, that is not headHash and has a stored snapshot
\* (0: none left).
RECURSIVE NextCandidate(_, _, _)
NextCandidate(hs, i, headHash) ==
    IF i = 0 THEN 0
    ELSE IF hs[i] = headHash THEN NextCandidate(hs, i - 1, headHash)
    ELSE IF hs[i] \notin DOMAIN stored THEN NextCandidate(hs, i - 1, headHash)
    ELSE i

\* ------------------------------------------------------------------------
\* GitService: one getBranchGraph call per caller, one action per await
\* ------------------------------------------------------------------------

IdleLoc ==
    [forced |-> FALSE, headHash |-> 0, storedHashes |-> <<>>, i |-> 0,
     baseGraph |-> EmptyGraph, logOutput |-> <<>>, commitMap |-> <<>>,
     graph |-> EmptyGraph, via |-> "", inputSize |-> 0, failed |-> FALSE,
     fetched |-> FALSE, headAtCall |-> 0, alone |-> FALSE,
     consecutive |-> FALSE, logFailed |-> {}]

NoRet ==
    [status |-> "none", data |-> EmptyGraph, via |-> "", forced |-> FALSE,
     headHash |-> 0, tag |-> 0, headAtCall |-> 0, alone |-> FALSE,
     prev |-> <<>>, fetched |-> FALSE, inputSize |-> 0, failed |-> FALSE, cause |-> ""]

FaultChoices == IF faults < MaxFaults THEN {FALSE, TRUE} ELSE {FALSE}

Fault(fail) == faults' = IF fail THEN faults + 1 ELSE faults

Goto(p, state, l) ==
    /\ pc' = [pc EXCEPT ![p] = state]
    /\ loc' = [loc EXCEPT ![p] = l]
    /\ UNCHANGED ret

\* How a resolved call ended: its value, the way it was obtained (via), the
\* head hash the value was built for or stored under (tag), whether no other
\* call was in flight while it ran (alone), and, when the call directly
\* follows another resolved non-forced call on an unchanged repository, that
\* call's value (prev).
Returned(l, data, via, tag) ==
    [status |-> "returned", data |-> data, via |-> via, forced |-> l.forced,
     headHash |-> l.headHash, tag |-> tag, headAtCall |-> l.headAtCall,
     alone |-> l.alone,
     prev |-> IF l.consecutive
              THEN <<[data |-> ret.data, via |-> ret.via, headHash |-> ret.headHash]>>
              ELSE <<>>,
     fetched |-> l.fetched, inputSize |-> l.inputSize, failed |-> l.failed, cause |-> ""]

\* The promise resolves with data.
Resolve(p, l, data, via, tag) ==
    /\ pc' = [pc EXCEPT ![p] = "idle"]
    /\ loc' = [loc EXCEPT ![p] = IdleLoc]
    /\ ret' = Returned(l, data, via, tag)

\* The promise rejects.
Reject(p, l, cause) ==
    /\ pc' = [pc EXCEPT ![p] = "idle"]
    /\ loc' = [loc EXCEPT ![p] = IdleLoc]
    /\ ret' = [NoRet EXCEPT !.status = "rejected", !.cause = cause, !.forced = l.forced]

\* This call directly follows a resolved non-forced call: no call is in
\* flight and the repository is as that call found and left it (a mutation
\* clears ret).
Consecutive(p, forceRefresh) ==
    /\ \A q \in Callers \ {p} : pc[q] = "idle"
    /\ ~forceRefresh
    /\ ret.status = "returned"
    /\ ~ret.forced
    /\ ret.alone

\* getBranchGraph from entry to its first await (or to the cached return).
\* Callers are interchangeable: caller 2 is the one that arrives while
\* caller 1 is in flight.
GetBranchGraph(p, forceRefresh) ==
    /\ pc[p] = "idle"
    /\ p = 1 \/ pc[1] # "idle"
    /\ calls < MaxCalls
    /\ calls' = calls + 1
    /\ UNCHANGED <<commits, refs, head, hasStorage, stored, index, faults>>
    /\ UNCHANGED layoutVars
    /\ memTag' = IF ~forceRefresh /\ AfterGetCached = <<>> THEN 0 ELSE memTag
    /\ LET l == [IdleLoc EXCEPT
                   !.forced = forceRefresh, !.headAtCall = HeadHash,
                   !.alone = \A q \in Callers \ {p} : pc[q] = "idle",
                   !.consecutive = Consecutive(p, forceRefresh)]
       IN  IF ~forceRefresh /\ CacheHit
           THEN /\ memCache' = memCache
                /\ pc' = pc
                /\ loc' = [q \in Callers |-> [loc[q] EXCEPT !.consecutive = FALSE, !.alone = FALSE]]
                /\ ret' = Returned([l EXCEPT !.headHash = HeadHash],
                                   memCache[1].data, "memory", memTag)
           ELSE /\ memCache' = IF forceRefresh THEN memCache ELSE AfterGetCached
                /\ pc' = [pc EXCEPT ![p] = "revparse"]
                /\ loc' = [q \in Callers |-> IF q = p THEN l
                                             ELSE [loc[q] EXCEPT !.consecutive = FALSE, !.alone = FALSE]]
                /\ ret' = IF l.consecutive THEN ret ELSE NoRet

\* tryBuildIncrementalBranchGraph's loop from index position i down to its
\* next await; with no candidate left getBranchGraph goes on to
\* buildFullBranchGraph and its log fetch.
ContinueScan(p, l, i) ==
    LET j == NextCandidate(l.storedHashes, i, l.headHash)
    IN  IF j = 0
        THEN Goto(p, "fulllog", [l EXCEPT !.i = 0])
        ELSE Goto(p, "ancestor", [l EXCEPT !.i = j, !.baseGraph = stored[l.storedHashes[j]]])

\* setCache and saveBranchGraphToStorage up to its first await.
CacheAndSave(p, l, graph, via) ==
    /\ memCache' = SetCache(graph)
    /\ memTag' = l.headHash
    /\ UNCHANGED index
    /\ IF hasStorage /\ l.headHash # 0
       THEN /\ stored' = StorageUpdate(stored, l.headHash, graph)
            /\ Goto(p, "savekey", [l EXCEPT !.graph = graph, !.via = via])
       ELSE /\ stored' = stored
            /\ Resolve(p, l, graph, via, l.headHash)

\* After await git.revparse(['HEAD']): exact match, else incremental, else full.
ResumeRevParse(p) ==
    /\ pc[p] = "revparse"
    /\ UNCHANGED <<commits, refs, head, hasStorage, stored, index, faults, calls>>
    /\ UNCHANGED layoutVars
    /\ LET l == [loc[p] EXCEPT !.headHash = HeadHash]
       IN  IF ~l.forced /\ HasPersisted(l.headHash)
           THEN /\ memCache' = SetCache(stored[l.headHash])
                /\ memTag' = l.headHash
                /\ Resolve(p, l, stored[l.headHash], "persisted", l.headHash)
           ELSE /\ UNCHANGED <<memCache, memTag>>
                /\ IF ~l.forced /\ l.headHash # 0 /\ hasStorage
                   THEN ContinueScan(p, [l EXCEPT !.storedHashes = index], Len(index))
                   ELSE Goto(p, "fulllog", l)

\* After await isAncestor(candidate, headHash).
ResumeIsAncestor(p) ==
    /\ pc[p] = "ancestor"
    /\ UNCHANGED <<commits, refs, head, hasStorage, stored, index, calls, memCache, memTag,
                   faults>>
    /\ UNCHANGED layoutVars
    /\ LET l == loc[p]
       IN  IF GitIsAncestor(l.storedHashes[l.i], l.headHash)
           THEN Goto(p, "inclog", l)
           ELSE ContinueScan(p, l, l.i - 1)

\* buildBranchGraphIncrementally after await git.raw(log base..head).
ResumeIncrementalLog(p) ==
    /\ pc[p] = "inclog"
    /\ UNCHANGED <<commits, refs, head, hasStorage, stored, index, calls, memCache, memTag>>
    /\ UNCHANGED layoutVars
    /\ \E fail \in FaultChoices :
        /\ Fault(fail)
        /\ LET l == loc[p]
           IN  IF fail
               THEN ContinueScan(p, [l EXCEPT !.logFailed = @ \cup {l.i}], l.i - 1)
               ELSE Goto(p, "incbranch",
                         [l EXCEPT !.fetched = TRUE,
                                   !.logOutput = GitLogRange(l.storedHashes[l.i], l.headHash)])

\* buildBranchGraphIncrementally after await git.branch(), then getBranchGraph
\* caches and saves the incremental snapshot.
ResumeIncrementalBranch(p) ==
    /\ pc[p] = "incbranch"
    /\ UNCHANGED <<commits, refs, head, hasStorage, calls>>
    /\ UNCHANGED layoutVars
    /\ \E fail \in FaultChoices :
        /\ Fault(fail)
        /\ LET l == loc[p]
               newCommits == ParseGitLogToCommitMap(l.logOutput)
           IN  IF fail
               THEN /\ Reject(p, l, "rebuild")
                    /\ UNCHANGED <<stored, index, memCache, memTag>>
               ELSE CacheAndSave(p,
                        [l EXCEPT !.inputSize =
                                     Len(CombineWithBase(newCommits, l.baseGraph.dag.nodes, 1))],
                        IncrementalGraphOf(l.baseGraph, newCommits, GitBranchSummary),
                        "incremental")

\* buildFullBranchGraph after await git.raw(log --all).
ResumeFullLog(p) ==
    /\ pc[p] = "fulllog"
    /\ UNCHANGED <<commits, refs, head, hasStorage, calls>>
    /\ UNCHANGED layoutVars
    /\ \E fail \in FaultChoices :
        /\ Fault(fail)
        /\ LET l == loc[p]
               parsed == ParseGitLogToCommitMap(GitLogAll(BRANCH_GRAPH_MAX_COMMITS))
           IN  IF fail
               THEN CacheAndSave(p, [l EXCEPT !.failed = TRUE], EmptyGraph, "full")
               ELSE /\ Goto(p, "fullbranch",
                            [l EXCEPT !.fetched = TRUE, !.inputSize = Len(parsed),
                                      !.commitMap = EnforceCommitLimit(parsed)])
                    /\ UNCHANGED <<stored, index, memCache, memTag>>

\* buildFullBranchGraph after await git.branch(), then getBranchGraph caches
\* and saves the full snapshot.
ResumeFullBranch(p) ==
    /\ pc[p] = "fullbranch"
    /\ UNCHANGED <<commits, refs, head, hasStorage, calls>>
    /\ UNCHANGED layoutVars
    /\ \E fail \in FaultChoices :
        /\ Fault(fail)
        /\ LET l == loc[p]
           IN  IF fail
               THEN CacheAndSave(p, [l EXCEPT !.failed = TRUE, !.commitMap = <<>>],
                                 EmptyGraph, "full")
               ELSE CacheAndSave(p, [l EXCEPT !.commitMap = <<>>],
                                 FullGraphOf(l.commitMap, GitBranchSummary), "full")

\* saveBranchGraphToStorage after await storage.update(storageKey, data).
ResumeSaveSnapshot(p) ==
    /\ pc[p] = "savekey"
    /\ UNCHANGED <<commits, refs, head, hasStorage, stored, calls, memCache, memTag>>
    /\ UNCHANGED layoutVars
    /\ \E fail \in FaultChoices :
        /\ Fault(fail)
        /\ LET l == loc[p]
           IN  IF fail
               THEN Reject(p, l, "storage") /\ UNCHANGED index
               ELSE IF ExistingIndexIncludes(index, l.headHash)
               THEN Resolve(p, l, l.graph, l.via, l.headHash) /\ UNCHANGED index
               ELSE Goto(p, "saveindex", l) /\ index' = Append(index, l.headHash)

\* saveBranchGraphToStorage after await storage.update(indexKey, ...).
ResumeSaveIndex(p) ==
    /\ pc[p] = "saveindex"
    /\ UNCHANGED <<commits, refs, head, hasStorage, stored, index, calls, memCache, memTag>>
    /\ UNCHANGED layoutVars
    /\ \E fail \in FaultChoices :
        /\ Fault(fail)
        /\ LET l == loc[p]
           IN  IF fail
               THEN Reject(p, l, "storage")
               ELSE Resolve(p, l, l.graph, l.via, l.headHash)

\* ------------------------------------------------------------------------
\* GitService: clearBranchGraphCache and getBranchGraphSnapshot
\* ------------------------------------------------------------------------

\* A call of another method starts: calls in flight are no longer alone.
Overlapped(p, l) ==
    [q \in Callers |-> IF q = p THEN l
                       ELSE [loc[q] EXCEPT !.consecutive = FALSE, !.alone = FALSE]]

\* clearBranchGraphCache has returned; failed tells that a storage.update
\* promise rejected and the catch logged it.
Cleared(p, l, failed) ==
    /\ pc' = [pc EXCEPT ![p] = "idle"]
    /\ loc' = [loc EXCEPT ![p] = IdleLoc]
    /\ ret' = [NoRet EXCEPT !.status = "cleared", !.alone = l.alone, !.failed = failed]

\* clearBranchGraphCache's loop at position i of storedHashes: the next
\* storage.update call and the suspension at its await. What the last
\* settled call returned is no longer recent.
ClearFrom(p, l, i) ==
    IF i <= Len(l.storedHashes)
    THEN /\ stored' = StorageRemove(stored, l.storedHashes[i])
         /\ index' = index
         /\ pc' = [pc EXCEPT ![p] = "clearkey"]
         /\ loc' = Overlapped(p, [l EXCEPT !.i = i])
         /\ ret' = NoRet
    ELSE /\ stored' = stored
         /\ index' = <<>>
         /\ pc' = [pc EXCEPT ![p] = "clearindex"]
         /\ loc' = Overlapped(p, [l EXCEPT !.i = i])
         /\ ret' = NoRet

\* clearBranchGraphCache from entry to its first await (or to the return
\* without storage).
ClearBranchGraphCache(p) ==
    /\ pc[p] = "idle"
    /\ p = 1 \/ pc[1] # "idle"
    /\ calls < MaxCalls
    /\ calls' = calls + 1
    /\ memCache' = <<>>
    /\ memTag' = 0
    /\ UNCHANGED <<commits, refs, head, hasStorage, faults>>
    /\ UNCHANGED layoutVars
    /\ LET l == [IdleLoc EXCEPT !.alone = \A q \in Callers \ {p} : pc[q] = "idle",
                                !.storedHashes = index]
       IN  IF ~hasStorage
           THEN /\ UNCHANGED <<stored, index>>
                /\ pc' = pc
                /\ loc' = Overlapped(p, IdleLoc)
                /\ ret' = [NoRet EXCEPT !.status = "cleared", !.alone = l.alone]
           ELSE ClearFrom(p, l, 1)

\* clearBranchGraphCache after await storage.update(<snapshot key>, undefined).
ResumeClearKey(p) ==
    /\ pc[p] = "clearkey"
    /\ UNCHANGED <<commits, refs, head, hasStorage, calls, memCache, memTag>>
    /\ UNCHANGED layoutVars
    /\ \E fail \in FaultChoices :
        /\ Fault(fail)
        /\ LET l == loc[p]
           IN  IF fail
               THEN Cleared(p, l, TRUE) /\ UNCHANGED <<stored, index>>
               ELSE ClearFrom(p, l, l.i + 1)

\* clearBranchGraphCache after await storage.update(indexKey, []).
ResumeClearIndex(p) ==
    /\ pc[p] = "clearindex"
    /\ UNCHANGED <<commits, refs, head, hasStorage, stored, index, calls, memCache, memTag>>
    /\ UNCHANGED layoutVars
    /\ \E fail \in FaultChoices :
        /\ Fault(fail)
        /\ Cleared(p, loc[p], fail)

\* getBranchGraphSnapshot has returned data, or null (via = "null").
SnapshotReturned(p, l, data, via) ==
    /\ pc' = [pc EXCEPT ![p] = "idle"]
    /\ loc' = Overlapped(p, IdleLoc)
    /\ ret' = [NoRet EXCEPT !.status = "snapshot", !.data = data, !.via = via]

\* getBranchGraphSnapshot from entry to await git.revparse (or to the cached
\* return).
GetBranchGraphSnapshot(p) ==
    /\ pc[p] = "idle"
    /\ p = 1 \/ pc[1] # "idle"
    /\ calls < MaxCalls
    /\ calls' = calls + 1
    /\ UNCHANGED <<commits, refs, head, hasStorage, stored, index, faults>>
    /\ UNCHANGED layoutVars
    /\ memTag' = IF AfterGetCached = <<>> THEN 0 ELSE memTag
    /\ LET l == [IdleLoc EXCEPT !.alone = \A q \in Callers \ {p} : pc[q] = "idle"]
       IN  IF CacheHit
           THEN /\ memCache' = memCache
                /\ SnapshotReturned(p, l, memCache[1].data, "memory")
           ELSE /\ memCache' = AfterGetCached
                /\ pc' = [pc EXCEPT ![p] = "snaprevparse"]
                /\ loc' = Overlapped(p, l)
                /\ ret' = NoRet

\* getBranchGraphSnapshot after await git.revparse(['HEAD']).
ResumeSnapshotRevParse(p) ==
    /\ pc[p] = "snaprevparse"
    /\ UNCHANGED <<commits, refs, head, hasStorage, stored, index, calls, memCache, memTag>>
    /\ UNCHANGED layoutVars
    /\ \E fail \in FaultChoices :
        /\ Fault(fail)
        /\ LET l == [loc[p] EXCEPT !.headHash = IF fail THEN 0 ELSE HeadHash]
               found == LoadBranchGraphFromStorage(l.headHash)
           IN  IF found = <<>>
               THEN SnapshotReturned(p, l, EmptyGraph, "null")
               ELSE SnapshotReturned(p, l, found[1], "persisted")

\* ------------------------------------------------------------------------
\* Repository mutations and the clock
\* ------------------------------------------------------------------------

\* The repository changes between getBranchGraph calls, while another call
\* can still be made: a call sees one repository from entry to settlement.
BetweenCalls == calls < MaxCalls /\ \A p \in Callers : pc[p] = "idle"

\* After a repository mutation the last settled call is no longer recent.
Mutated ==
    /\ ret' = NoRet
    /\ UNCHANGED <<hasStorage, stored, index, memCache, pc, loc, memTag, faults, calls>>
    /\ UNCHANGED layoutVars

AllBranchNames == {BranchNames[i] : i \in 1 .. Len(BranchNames)}

\* GitService.commit: a new commit on the current branch. No cache is
\* invalidated.
commit ==
    /\ BetweenCalls
    /\ Len(commits) < MaxRepoCommits
    /\ commits' = Append(commits, [parents |-> IF HeadHash = 0 THEN <<>> ELSE <<HeadHash>>])
    /\ refs' = [refs EXCEPT ![head] = Len(commits) + 1]
    /\ head' = head
    /\ Mutated

\* GitService.checkout: switch to an existing branch. The branchGraph cache
\* entry is not among the invalidated ones.
checkout(branchName) ==
    /\ BetweenCalls
    /\ branchName # head
    /\ refs[branchName] # 0
    /\ head' = branchName
    /\ UNCHANGED <<commits, refs>>
    /\ Mutated

\* GitService.createBranch(branchName, true): git checkout -b at HEAD.
createBranch(branchName) ==
    /\ BetweenCalls
    /\ HeadHash # 0
    /\ refs[branchName] = 0
    /\ refs' = [refs EXCEPT ![branchName] = HeadHash]
    /\ head' = branchName
    /\ commits' = commits
    /\ Mutated

\* Time passes beyond CACHE_TTL.branchGraph since the entry was set: ten
\* seconds, which go by between calls and not while one is suspended.
ExpireTTL ==
    /\ BetweenCalls
    /\ CacheHit
    /\ memCache' = <<[memCache[1] EXCEPT !.expired = TRUE]>>
    /\ UNCHANGED <<commits, refs, head, hasStorage, stored, index, pc, loc, ret, memTag,
                   faults, calls, layoutVars>>

LayoutOff ==
    /\ phase = "off"
    /\ nodes = <<>>
    /\ sortedHashes = <<>>
    /\ vParents = <<>>
    /\ vChildren = <<>>
    /\ nullChildren = <<>>
    /\ vx = <<>>
    /\ vOnBranch = <<>>
    /\ vNextParent = <<>>
    /\ vNextX = <<>>
    /\ vConnections = <<>>
    /\ branches = <<>>
    /\ availableColors = <<>>
    /\ scanI = 0
    /\ branchStart = <<>>
    /\ idle = 0

\* A fresh repository (git init) and a freshly constructed GitService, with or
\* without an ExtensionContext.
Init ==
    /\ LayoutOff
    /\ commits = <<>>
    /\ refs = [b \in AllBranchNames |-> 0]
    /\ head = "main"
    /\ hasStorage \in BOOLEAN
    /\ stored = <<>>
    /\ index = <<>>
    /\ memCache = <<>>
    /\ pc = [p \in Callers |-> "idle"]
    /\ loc = [p \in Callers |-> IdleLoc]
    /\ ret = NoRet
    /\ memTag = 0
    /\ faults = 0
    /\ calls = 0

Next ==
    \/ commit
    \/ \E b \in AllBranchNames : checkout(b)
    \/ \E b \in AllBranchNames : createBranch(b)
    \/ ExpireTTL
    \/ \E p \in Callers, forceRefresh \in BOOLEAN : GetBranchGraph(p, forceRefresh)
    \/ \E p \in Callers : ResumeRevParse(p)
    \/ \E p \in Callers : ResumeIsAncestor(p)
    \/ \E p \in Callers : ResumeIncrementalLog(p)
    \/ \E p \in Callers : ResumeIncrementalBranch(p)
    \/ \E p \in Callers : ResumeFullLog(p)
    \/ \E p \in Callers : ResumeFullBranch(p)
    \/ \E p \in Callers : ResumeSaveSnapshot(p)
    \/ \E p \in Callers : ResumeSaveIndex(p)
    \/ \E p \in Callers : ClearBranchGraphCache(p)
    \/ \E p \in Callers : ResumeClearKey(p)
    \/ \E p \in Callers : ResumeClearIndex(p)
    \/ \E p \in Callers : GetBranchGraphSnapshot(p)
    \/ \E p \in Callers : ResumeSnapshotRevParse(p)

Spec == Init /\ [][Next]_vars

\* ------------------------------------------------------------------------
\* Properties of the branch-graph cache
\* ------------------------------------------------------------------------

\* What buildFullBranchGraph would return for the repository as it is now.
FullRebuildNow ==
    FullGraphOf(EnforceCommitLimit(ParseGitLogToCommitMap(GitLogAll(BRANCH_GRAPH_MAX_COMMITS))),
                GitBranchSummary)

SeqSet(sq) == {sq[i] : i \in 1 .. Len(sq)}

\* Two snapshots agree on nodes, links, branches and merges, whatever the
\* order their arrays list them in.
SameSnapshot(a, b) ==
    /\ {[n EXCEPT !.branches = SeqSet(n.branches)] : n \in SeqSet(a.dag.nodes)}
         = {[n EXCEPT !.branches = SeqSet(n.branches)] : n \in SeqSet(b.dag.nodes)}
    /\ SeqSet(a.dag.links) = SeqSet(b.dag.links)
    /\ SeqSet(a.branches) = SeqSet(b.branches)
    /\ SeqSet(a.merges) = SeqSet(b.merges)

\* C1 (incremental equivalence): when a call resolves with an incrementally
\* built snapshot and no collaborator call has failed,
\* that snapshot has the nodes, links, branches and merges of the snapshot a
\* full rebuild of the same repository produces.
C1_IncrementalEquivalence ==
    (ret.status = "returned" /\ ret.via = "incremental" /\ faults = 0)
    => SameSnapshot(ret.data, FullRebuildNow)

C3_NeverStale ==
    (ret.status = "returned" /\ ~ret.forced)
    => ret.tag = ret.headAtCall

\* C7 (eviction bound): every snapshot built, cached or stored has at most
\* BRANCH_GRAPH_MAX_COMMITS nodes, and a build that parsed or combined more
\* commits than that keeps exactly BRANCH_GRAPH_MAX_COMMITS nodes.
C7_EvictionBound ==
    /\ (ret.status = "returned" /\ ret.via \in {"incremental", "full"})
       => /\ Len(ret.data.dag.nodes) <= BRANCH_GRAPH_MAX_COMMITS
          /\ ret.inputSize > BRANCH_GRAPH_MAX_COMMITS
             => Len(ret.data.dag.nodes) = BRANCH_GRAPH_MAX_COMMITS
    /\ \A h \in DOMAIN stored : Len(stored[h].dag.nodes) <= BRANCH_GRAPH_MAX_COMMITS
    /\ memCache # <<>> => Len(memCache[1].data.dag.nodes) <= BRANCH_GRAPH_MAX_COMMITS

\* C7 witness: an incremental build combined more commits than the limit and
\* resolved with exactly the limit.
C7_Witness ==
    /\ ret.status = "returned"
    /\ ret.via = "incremental"
    /\ ret.inputSize > BRANCH_GRAPH_MAX_COMMITS
    /\ Len(ret.data.dag.nodes) = BRANCH_GRAPH_MAX_COMMITS

\* C8 (rebuilds serialized): at most one caller at a time is suspended at a
\* commit-log fetch.
C8_Serialized ==
    Cardinality({p \in Callers : pc[p] \in {"inclog", "fulllog"}}) <= 1

\* C9 (rebuild failures): no call rejects because a step of a rebuild failed,
\* and a call whose full rebuild failed resolves with the empty snapshot.
C9_RebuildFailureYieldsEmpty ==
    /\ ~(ret.status = "rejected" /\ ret.cause = "rebuild")
    /\ (ret.status = "returned" /\ ret.failed)
       => (ret.data.dag.nodes = <<>> /\ ret.data.dag.links = <<>>)

\* C10 (storage unavailable): no call rejects because a storage call failed,
\* and without storage no call rejects at all.
C10_StorageDegrades ==
    /\ ~(ret.status = "rejected" /\ ret.cause = "storage")
    /\ ~hasStorage => ret.status # "rejected"

\* ------------------------------------------------------------------------
\* Properties of the persisted index, clearBranchGraphCache and
\* getBranchGraphSnapshot
\* ------------------------------------------------------------------------

\* The program positions of a getBranchGraph call in flight.
GetBranchGraphPcs ==
    {"revparse", "ancestor", "inclog", "incbranch", "fulllog", "fullbranch",
     "savekey", "saveindex"}

\* This step is taken by a getBranchGraph call of caller p that is, or
\* becomes, suspended.
GetBranchGraphStep(p) ==
    /\ pc'[p] # pc[p]
    /\ pc[p] \in GetBranchGraphPcs \/ pc'[p] \in GetBranchGraphPcs

IsPrefix(s, t) == Len(s) <= Len(t) /\ \A k \in 1 .. Len(s) : s[k] = t[k]

NoDuplicates(s) == \A j, k \in 1 .. Len(s) : s[j] = s[k] => j = k

\* C11 (index append-only and duplicate-free): the persisted index never
\* holds the same hash twice, and every step of a getBranchGraph call leaves
\* the index it found as a prefix of the index it leaves, which is either the
\* same index or that index with the call's headHash, absent before, appended.
C11_IndexAppendOnly ==
    [][/\ NoDuplicates(index')
       /\ \A p \in Callers :
            GetBranchGraphStep(p)
            => /\ IsPrefix(index, index')
               /\ index' # index
                  => /\ index' = Append(index, loc[p].headHash)
                     /\ ~SeqHas(index, loc[p].headHash)]_vars

\* C11 witness: a call has resolved after appending its head hash to an
\* index that already listed another hash.
C11_Witness ==
    /\ ret.status = "returned"
    /\ ret.via \in {"full", "incremental"}
    /\ Len(index) = 2
    /\ index[2] = ret.headHash
    /\ index[1] # ret.headHash

\* C12 (clear empties both tiers): when clearBranchGraphCache has returned
\* and no other call was in flight while it ran, the in-memory cache has no entry, the
\* persisted index is empty and no snapshot is persisted under any head hash
\* (so that the next non-forced getBranchGraph call finds neither an exact
\* match nor an incremental candidate).
C12_ClearEmptiesBothTiers ==
    (ret.status = "cleared" /\ ret.alone /\ \A p \in Callers : pc[p] = "idle")
    => (memCache = <<>> /\ index = <<>> /\ stored = <<>>)

Disqualified(l, j) ==
    LET candidate == l.storedHashes[j]
    IN  \/ candidate = l.headHash
        \/ candidate \notin DOMAIN stored
        \/ candidate \notin Ancestors(l.headHash)
        \/ j \in l.logFailed

C20_FailureSnapshotCached ==
    /\ (ret.status = "returned" /\ ret.failed /\ ret.alone
        /\ \A p \in Callers : pc[p] = "idle")
       => /\ ret.data = EmptyGraph
          /\ memCache # <<>>
          /\ memCache[1].data = EmptyGraph
          /\ (hasStorage /\ ret.headHash # 0)
             => /\ ret.headHash \in DOMAIN stored
                /\ stored[ret.headHash] = EmptyGraph
                /\ SeqHas(index, ret.headHash)
    /\ (/\ ret.status = "returned"
        /\ ret.prev # <<>>
        /\ ret.prev[1].via = "full"
        /\ ret.prev[1].headHash # 0
        /\ ret.prev[1].data = EmptyGraph
        /\ ret.via = "memory" \/ hasStorage)
       => (ret.data = EmptyGraph /\ ~ret.fetched /\ ret.via \in {"memory", "persisted"})

\* C20 witness: a call has resolved with a snapshot built incrementally on
\* the empty snapshot that an earlier failed rebuild persisted under an
\* ancestor of its head.
C20_Witness ==
    /\ ret.status = "returned"
    /\ ret.via = "incremental"
    /\ ret.alone
    /\ Len(index) = 2
    /\ index[2] = ret.headHash
    /\ index[1] \in DOMAIN stored
    /\ stored[index[1]] = EmptyGraph
    /\ index[1] \in Ancestors(ret.headHash) \ {ret.headHash}

\* The hashes of a sequence of log lines, map entries or snapshot nodes.
HashesOf(sq) == [k \in 1 .. Len(sq) |-> sq[k].hash]

\* The hashes in the order buildBranchGraphIncrementally inserts them: the
\* newly fetched commits, then the base snapshot's nodes not among them.
InsertionOrder(l) ==
    HashesOf(l.logOutput)
        \o SelectSeq(HashesOf(l.baseGraph.dag.nodes),
                     LAMBDA h : ~SeqHas(HashesOf(l.logOutput), h))

\* Caller p has built an incremental snapshot and is saving it.
SavingIncremental(p) == pc[p] = "savekey" /\ loc[p].via = "incremental"

\* C28 (eviction in insertion order): the nodes of an incremental snapshot
\* are the first BRANCH_GRAPH_MAX_COMMITS hashes in insertion order (all of
\* them when there are no more than that), the newly fetched commits coming
\* before the base snapshot's nodes; so whenever a newly fetched commit is
\* missing from the snapshot, no node of the base snapshot is in it.
C28_EvictionOrder ==
    \A p \in Callers :
        SavingIncremental(p)
        => LET all == InsertionOrder(loc[p])
               kept == HashesOf(loc[p].graph.dag.nodes)
               fetched == HashesOf(loc[p].logOutput)
           IN  /\ kept = SubSeq(all, 1, IF Len(all) > BRANCH_GRAPH_MAX_COMMITS
                                        THEN BRANCH_GRAPH_MAX_COMMITS ELSE Len(all))
               /\ (\E k \in 1 .. Len(fetched) : ~SeqHas(kept, fetched[k]))
                  => \A k \in 1 .. Len(kept) : SeqHas(fetched, kept[k])

\* C28 witness: an incremental build combined more commits than the limit;
\* its snapshot keeps every newly fetched commit and lost a base node.
C28_Witness ==
    \E p \in Callers :
        /\ SavingIncremental(p)
        /\ Len(InsertionOrder(loc[p])) > BRANCH_GRAPH_MAX_COMMITS
        /\ Len(loc[p].logOutput) > 0
        /\ \A k \in 1 .. Len(loc[p].logOutput) :
              SeqHas(HashesOf(loc[p].graph.dag.nodes), loc[p].logOutput[k].hash)
        /\ \E k \in 1 .. Len(loc[p].baseGraph.dag.nodes) :
              ~SeqHas(HashesOf(loc[p].graph.dag.nodes), loc[p].baseGraph.dag.nodes[k].hash)

\* The awaits a forced getBranchGraph call may be suspended at.
ForcedPcs == {"revparse", "fulllog", "fullbranch", "savekey", "saveindex"}

\* C30 (forced refresh): a getBranchGraph(true) call never suspends at an
\* ancestor check or an incremental log fetch and resolves only with the
\* result of a full rebuild, never with the in-memory entry, a persisted
\* snapshot or an incremental result. While it saves, and when it has
\* returned, with no other call in between, the in-memory entry holds that
\* result and, when HEAD resolved and storage exists, so does the snapshot
\* persisted under the call's head hash; the result is what a full rebuild
\* of the repository gives (the empty snapshot when the rebuild failed).
C30_ForceRefresh ==
    /\ \A p \in Callers :
          (pc[p] # "idle" /\ loc[p].forced)
          => /\ pc[p] \in ForcedPcs
             /\ pc[p] \in {"savekey", "saveindex"}
                => /\ loc[p].via = "full"
                   /\ loc[p].alone
                      => /\ memCache = SetCache(loc[p].graph)
                         /\ HasPersisted(loc[p].headHash)
                         /\ stored[loc[p].headHash] = loc[p].graph
    /\ (ret.status = "returned" /\ ret.forced)
       => /\ ret.via = "full"
          /\ (ret.alone /\ \A p \in Callers : pc[p] = "idle")
             => /\ memCache # <<>>
                /\ memCache[1].data = ret.data
                /\ (hasStorage /\ ret.headHash # 0)
                   => HasPersisted(ret.headHash) /\ stored[ret.headHash] = ret.data
                /\ ret.data = IF ret.failed THEN EmptyGraph ELSE FullRebuildNow

\* C30 witness: a forced call, alone, is saving a full rebuild under a head
\* hash that the index lists already (an earlier call persisted a snapshot
\* under it), and the persisted snapshot is the call's result.
C30_Witness ==
    \E p \in Callers :
        /\ pc[p] = "savekey"
        /\ loc[p].forced
        /\ loc[p].alone
        /\ SeqHas(index, loc[p].headHash)
        /\ stored[loc[p].headHash] = loc[p].graph
        /\ Len(loc[p].graph.dag.nodes) > 0

\* ------------------------------------------------------------------------
\* Properties of the layout on particular histories
\* ------------------------------------------------------------------------

\* The rows form a linear chain: each commit's single parent is the commit
\* on the next row, and the commit on the last row has no parent.
IsLinearChain ==
    /\ NumRows >= 1
    /\ \A r \in Rows :
            vParents[r] = IF r < NumRows - 1 THEN <<r + 1>> ELSE <<>>

\* The ways git can decorate the commits of the window with branch names.
BranchDecorations == {<<>>, <<"main">>, <<"feature">>, <<"main", "feature">>}

\* The commit map GitService holds for the window, decorated by dec.
CommitMapOfNodes(dec) ==
    [k \in 1 .. Len(nodes) |->
        [hash |-> nodes[k].hash, parents |-> nodes[k].parents,
         timestamp |-> nodes[k].timestamp, branches |-> dec[k]]]

\* C15 (linear chain): a chain of n commits, each one's single parent on the
\* next row, is laid out as one Branch with colour index 0 and n - 1 Lines,
\* every vertex at x = 0, and merge inference over the same commits finds no
\* merge.
C15_LinearChain ==
    (phase = "done" /\ IsLinearChain) =>
        /\ Len(branches) = 1
        /\ branches[1].colorIndex = 0
        /\ Len(branches[1].lines) = NumRows - 1
        /\ \A r \in Rows : vx[r] = 0 /\ vOnBranch[r] = 1
        /\ \A dec \in [1 .. Len(nodes) -> BranchDecorations] :
                InferMerges(CommitMapOfNodes(dec), Len(nodes), "main") = <<>>

\* C15 witness: a finished run on a chain of MaxVertices commits.
C15_Witness ==
    /\ phase = "done"
    /\ IsLinearChain
    /\ NumRows = MaxVertices
    /\ Len(branches[1].lines) = MaxVertices - 1

\* The commit on row r has no parents and no children.
IsOrphanRoot(r) == vParents[r] = <<>> /\ vChildren[r] = <<>>

\* C16 (orphan root): at the end of a run a commit with no parents and no
\* children, on any row r, is the only vertex of its Branch, and that Branch
\* has no Lines and ends at r + 1.
C16_OrphanRoot ==
    phase = "done" =>
        \A r \in Rows :
            IsOrphanRoot(r)
            => /\ vOnBranch[r] # NoBranch
               /\ \A q \in Rows \ {r} : vOnBranch[q] # vOnBranch[r]
               /\ branches[vOnBranch[r]].lines = <<>>
               /\ branches[vOnBranch[r]].end = r + 1

\* The hashes of the loaded window.
LoadedHashes == {nodes[k].hash : k \in 1 .. Len(nodes)}

\* The j-th parent hash of the commit on row r.
ParentHash(r, j) == NodeOf(nodes, sortedHashes[r + 1]).parents[j]

\* Every parent edge to a hash outside the window leads to the sentinel, and
\* every other parent edge to the row of that hash.
SentinelWiring ==
    phase # "input" =>
        \A r \in Rows : \A j \in 1 .. Len(vParents[r]) :
            IF ParentHash(r, j) \in LoadedHashes
            THEN vParents[r][j] \in Rows /\ sortedHashes[vParents[r][j] + 1] = ParentHash(r, j)
            ELSE vParents[r][j] = NullVertexId

\* The sentinel is no vertex of a row, is bound to no Branch and has no
\* children.
SentinelApart ==
    /\ NullVertexId \notin Rows
    /\ DOMAIN vOnBranch \subseteq Rows
    /\ DOMAIN vx \subseteq Rows
    /\ \A r \in Rows : \A k \in 1 .. Len(vChildren[r]) : vChildren[r][k] \in Rows
    /\ nullChildren = <<>>

\* A parent edge of row r that is still unprocessed leads to the sentinel.
SentinelEdgePending(r) ==
    \E j \in (vNextParent[r] + 1) .. Len(vParents[r]) : vParents[r][j] = NullVertexId

\* What holds of every step: the wiring, the sentinel kept apart, a
\* determinePath call whose next parent is the sentinel marks that edge
\* processed, and a run that has ended has every edge processed.
SentinelMechanics ==
    /\ SentinelWiring'
    /\ SentinelApart'
    /\ (/\ phase = "scan" /\ phase' = "scan" /\ scanI' = scanI
        /\ GetNextParent(CurLayout, scanI) = NullVertexId)
       => vNextParent'[scanI] = vNextParent[scanI] + 1
    /\ phase' = "done"
       => \A r \in Rows : vNextParent'[r] = Len(vParents[r])

\* C17 (sentinel for out-of-window parents): every parent hash outside the
\* loaded window is wired to the one sentinel vertex (id -1) and never to a
\* real vertex; the layout then completes and marks that edge processed (the
\* outer scan never stalls on a row that still has an edge to the sentinel);
\* the sentinel is never bound to a Branch, never given children and never
\* occupies a row.
C17_Sentinel ==
    [][/\ SentinelMechanics
       /\ ~(ScanStalled /\ SentinelEdgePending(scanI))']_vars

\* Every parent inside the window sits on a strictly greater row than its
\* child.
ParentsBelow ==
    \A r \in Rows : \A j \in 1 .. Len(vParents[r]) :
        vParents[r][j] # NullVertexId => vParents[r][j] > r

\* Bound vertices plus the sum of the parent cursors.
Measure == Progress(CurLayout)

\* The number of parent edges of the window.
RECURSIVE EdgesFrom(_)
EdgesFrom(r) == IF r >= NumRows THEN 0 ELSE Len(vParents[r]) + EdgesFrom(r + 1)

\* C18 (termination measure): when every in-window parent sits on a strictly
\* greater row than its child, the outer scan terminates: each determinePath
\* call binds a previously unbound vertex or advances a parent cursor, so
\* the measure strictly increases with every call, and it never exceeds
\* n + the number of parent edges.
C18_TerminationMeasure ==
    [][/\ (phase = "scan" /\ phase' = "scan" /\ scanI' = scanI /\ ParentsBelow)
          => Measure' > Measure
       /\ (phase' # "input" /\ ParentsBelow')
          => (Measure' <= NumRows' + EdgesFrom(0)' /\ ~ScanStalled')]_vars

\* C18 witness: a run over MaxVertices commits with a merge and every parent
\* below its child has ended with the measure at its bound.
C18_Witness ==
    /\ phase = "done"
    /\ ParentsBelow
    /\ NumRows = MaxVertices
    /\ \E r \in Rows : IsMerge(r) /\ \A j \in 1 .. 2 : vParents[r][j] # NullVertexId
    /\ Measure = NumRows + EdgesFrom(0)

\* ------------------------------------------------------------------------
\* Properties of concurrent calls on the persisted tier
\* ------------------------------------------------------------------------

\* The head hashes that have a persisted snapshot.
PersistedHashes == DOMAIN stored

\* C21 (index and snapshots agree at quiescence): once every getBranchGraph
\* and clearBranchGraphCache call has returned, the head hashes that have a
\* persisted snapshot are exactly the hashes listed in the index.
C21_IndexMatchesSnapshots ==
    (\A p \in Callers : pc[p] = "idle") => PersistedHashes = SeqSet(index)

\* ------------------------------------------------------------------------
\* Properties of determinePath, getAvailableColour and the rows
\* ------------------------------------------------------------------------

\* This step is one determinePath(scanI) call of the outer scan.
DeterminePathStep == phase = "scan" /\ phase' = "scan" /\ scanI' = scanI

\* The start vertex is a merge, is bound, and its next unprocessed parent is
\* a real vertex that is bound.
MergeContinuation ==
    /\ Len(vParents[scanI]) >= 2
    /\ vOnBranch[scanI] # NoBranch
    /\ vNextParent[scanI] < Len(vParents[scanI])
    /\ vParents[scanI][vNextParent[scanI] + 1] \in Rows
    /\ vOnBranch[vParents[scanI][vNextParent[scanI] + 1]] # NoBranch

\* The rows below the start vertex that resolve the connection to parent par
\* on Branch b: the parent's own row, or a row with a point that connects to
\* par on b already.
ResolvingRows(par, b) ==
    {i \in Rows : /\ i > scanI
                  /\ i = par \/ GetPointConnectingTo(CurLayout, i, par, b) # NoPoint}

\* What a merge-continuation call does to the layout, for parent par bound to
\* Branch b.
MergeContinuationEffect(par, b) ==
    /\ Len(branches') = Len(branches)
    /\ availableColors' = availableColors
    /\ vOnBranch' = vOnBranch
    /\ vx' = vx
    /\ \A k \in 1 .. Len(branches) :
          /\ branches'[k].end = branches[k].end
          /\ branches'[k].colorIndex = branches[k].colorIndex
          /\ IsPrefix(branches[k].lines, branches'[k].lines)
          /\ k # b => branches'[k].lines = branches[k].lines
    /\ ResolvingRows(par, b) # {}
    /\ \A first \in ResolvingRows(par, b) :
          (\A i \in ResolvingRows(par, b) : first <= i)
          => /\ Len(branches'[b].lines) = Len(branches[b].lines) + (first - scanI)
             /\ branches'[b].lines[Len(branches'[b].lines)].p2.y = first
    /\ vNextParent' = [vNextParent EXCEPT ![scanI] = @ + 1]

\* C22 (merge continuation): a determinePath call takes the merge
\* continuation path (creates no Branch) exactly when the start vertex has at
\* least 2 parents, is bound, and its next unprocessed parent is a real, bound
\* vertex; on that path no colour is allocated and no vertex is bound, every
\* new segment goes to the parent's Branch, the scan stops at the first row
\* that resolves the connection, and exactly one parent edge of the start
\* vertex is marked processed.
C22_MergeContinuation ==
    [][DeterminePathStep
       => /\ MergeContinuation <=> Len(branches') = Len(branches)
          /\ MergeContinuation
             => MergeContinuationEffect(vParents[scanI][vNextParent[scanI] + 1],
                    vOnBranch[vParents[scanI][vNextParent[scanI] + 1]])]_vars

\* Every vertex bound to a Branch, and every endpoint of its Lines, is on a
\* row that Below relates to the Branch's end.
RowsWithinEnd(Below(_, _)) ==
    /\ \A r \in Rows : vOnBranch[r] # NoBranch => Below(r, branches[vOnBranch[r]].end)
    /\ \A b \in 1 .. Len(branches) : \A k \in 1 .. Len(branches[b].lines) :
          /\ Below(branches[b].lines[k].p1.y, branches[b].end)
          /\ Below(branches[b].lines[k].p2.y, branches[b].end)

\* C25 (end is exclusive): at the end of a layout run every vertex bound to
\* a Branch and every endpoint of every Line of that Branch lies on a row
\* strictly less than the Branch's end.
C25_EndExclusive ==
    phase = "done" => RowsWithinEnd(LAMBDA r, e : r < e)

\* The weaker reading, end as a row the Branch may reach: rows less than or
\* equal to the Branch's end.
EndInclusive ==
    phase = "done" => RowsWithinEnd(LAMBDA r, e : r <= e)

\* Row r is bound and its parent cursor has passed its last parent.
Settled(r) == vOnBranch[r] # NoBranch /\ vNextParent[r] = Len(vParents[r])

\* C26 (the sweep finds nothing to do): every row the outer scan has moved
\* past is bound and has no unprocessed parent, so when the scan exits every
\* vertex is; the completion sweep that follows binds no vertex, creates no
\* Branch and allocates no colour.
C26_SweepIsIdle ==
    [][phase = "scan"
       => /\ \A r \in Rows : r < scanI' => Settled(r)'
          /\ phase' = "done"
             => /\ \A r \in Rows : Settled(r)
                /\ vOnBranch' = vOnBranch
                /\ vx' = vx
                /\ branches' = branches
                /\ availableColors' = availableColors]_vars

\* C26 witness: a run over MaxVertices rows has finished with several
\* Branches, one of them opened on the last row.
C26_Witness ==
    /\ phase = "done"
    /\ NumRows = MaxVertices
    /\ Len(branches) >= 2
    /\ branchStart[Len(branchStart)] = NumRows - 1

\* The Lines that this step appends to Branch b (all of them for a Branch the
\* step creates).
NewLines(b) ==
    IF b <= Len(branches)
    THEN SubSeq(branches'[b].lines, Len(branches[b].lines) + 1, Len(branches'[b].lines))
    ELSE branches'[b].lines

\* C27 (Lines join adjacent rows in one path): every Line goes from a row to
\* the next one, both inside the rows of the run; the Lines one determinePath
\* call adds form one path, the first starting at the start vertex's point
\* and each later one starting where the previous one ended.
C27_ContiguousLines ==
    [][/\ \A b \in 1 .. Len(branches') : \A k \in 1 .. Len(branches'[b].lines) :
             /\ branches'[b].lines[k].p2.y = branches'[b].lines[k].p1.y + 1
             /\ 0 <= branches'[b].lines[k].p1.y
             /\ branches'[b].lines[k].p2.y <= NumRows' - 1
       /\ DeterminePathStep
          => /\ Cardinality({b \in 1 .. Len(branches') : NewLines(b) # <<>>}) <= 1
             /\ \A b \in 1 .. Len(branches') :
                   LET added == NewLines(b)
                   IN  /\ added # <<>> => added[1].p1 = [x |-> vx'[scanI], y |-> scanI]
                       /\ \A k \in 1 .. (Len(added) - 1) : added[k + 1].p1 = added[k].p2]_vars

\* C27 witness: in a finished run one Branch holds the Lines of a normal
\* walk over two rows and of a later merge continuation that starts at row 0
\* again.
C27_Witness ==
    /\ phase = "done"
    /\ \E b \in 1 .. Len(branches) :
          /\ Len(branches[b].lines) >= 3
          /\ branches[b].lines[2].p1 = branches[b].lines[1].p2
          /\ branches[b].lines[3].p1.y = 0

\* The position of hash in the input node list.
InputPosition(hash) == CHOOSE k \in 1 .. Len(nodes) : nodes[k].hash = hash

\* The timestamp of the commit on row r.
TimestampOfRow(r) == NodeOf(nodes, sortedHashes[r + 1]).timestamp

\* C29 (row order): once the rows are built, every input commit has exactly
\* one row; rows are in descending timestamp order; commits with equal
\* timestamps are in the order of the input node list; and the vertex of a
\* row carries the row index as its id (the id that commitLookup gives for
\* the row's hash, and the index of its fields).
C29_RowOrder ==
    phase # "input"
    => /\ NumRows = Len(nodes)
       /\ \A k \in 1 .. Len(nodes) : \E r \in Rows : sortedHashes[r + 1] = nodes[k].hash
       /\ \A i, j \in Rows :
             i < j => /\ TimestampOfRow(i) >= TimestampOfRow(j)
                      /\ TimestampOfRow(i) = TimestampOfRow(j)
                         => InputPosition(sortedHashes[i + 1]) < InputPosition(sortedHashes[j + 1])
       /\ \A r \in Rows : CommitLookup(sortedHashes, sortedHashes[r + 1]) = r
       /\ DOMAIN vOnBranch = Rows
       /\ DOMAIN vParents = Rows

\* C29 witness: a finished run over three commits in which the sort moved the
\* last input commit to row 0 and left two commits of equal timestamp in
\* input order below it.
C29_Witness ==
    /\ phase = "done"
    /\ NumRows = 3
    /\ sortedHashes[1] = nodes[3].hash
    /\ sortedHashes[2] = nodes[1].hash
    /\ TimestampOfRow(1) = TimestampOfRow(2)

\* getAvailableColour on its own: Branches are opened at any row and end on
\* any later row bound, as determinePath and the completion sweep do with the
\* slot they are given (new Branch(colorIndex), then
\* availableColors[colorIndex] = end).
ColourInit ==
    /\ phase = "colour"
    /\ nodes = <<>>
    /\ sortedHashes = <<>>
    /\ vParents = <<>>
    /\ vChildren = <<>>
    /\ nullChildren = <<>>
    /\ vx = <<>>
    /\ vOnBranch = <<>>
    /\ vNextParent = <<>>
    /\ vNextX = <<>>
    /\ vConnections = <<>>
    /\ branches = <<>>
    /\ availableColors = <<>>
    /\ scanI = 0
    /\ branchStart = <<>>
    /\ idle = 0
    /\ commits = <<>>
    /\ refs = <<>>
    /\ head = ""
    /\ hasStorage = FALSE
    /\ stored = <<>>
    /\ index = <<>>
    /\ memCache = <<>>
    /\ pc = <<>>
    /\ loc = <<>>
    /\ ret = <<>>
    /\ memTag = 0
    /\ faults = 0
    /\ calls = 0

\* One Branch is opened at row startAt and ends at row bound end.
AllocateColour(startAt, end) ==
    /\ phase = "colour"
    /\ Len(branches) < MaxBranches
    /\ LET col == GetAvailableColour(startAt, availableColors)
       IN  /\ availableColors' = [col.colors EXCEPT ![col.index + 1] = end]
           /\ branches' = Append(branches, [colorIndex |-> col.index, end |-> end,
                                             lines |-> <<>>])
           /\ branchStart' = Append(branchStart, startAt)
    /\ UNCHANGED <<phase, nodes, sortedHashes, vParents, vChildren, nullChildren, vx,
                   vOnBranch, vNextParent, vNextX, vConnections, scanI, idle, cacheVars>>

ColourNext ==
    \E startAt \in 0 .. MaxRow :
        \E end \in (startAt + 1) .. (MaxRow + 1) : AllocateColour(startAt, end)

ColourSpec == ColourInit /\ [][ColourNext]_vars

\* The slots (1-based) that getAvailableColour(startAt) may recycle.
FreeSlots(startAt) == {i \in 1 .. Len(availableColors) : startAt > availableColors[i]}

\* C23 (first fit): the Branch opened at row startAt gets the lowest slot i
\* with startAt > availableColors[i], and then no slot is added; only when no
\* slot qualifies is one slot appended and its index returned. No other slot
\* changes, whichever slot was written last.
C23_FirstFit ==
    [][(phase = "colour" /\ Len(branches') = Len(branches) + 1)
       => LET startAt == branchStart'[Len(branchStart')]
              colorIndex == branches'[Len(branches')].colorIndex
              free == FreeSlots(startAt)
          IN  /\ free # {}
                 => /\ colorIndex + 1 \in free
                    /\ \A j \in free : colorIndex + 1 <= j
                    /\ Len(availableColors') = Len(availableColors)
              /\ free = {}
                 => /\ colorIndex = Len(availableColors)
                    /\ Len(availableColors') = Len(availableColors) + 1
              /\ \A j \in 1 .. Len(availableColors) :
                    j # colorIndex + 1 => availableColors'[j] = availableColors[j]]_vars

\* C23 witness: the third Branch starts below the ends of the first two,
\* whose slots 0 and 1 are both free, slot 1 released later than slot 0, and
\* it is given slot 0.
C23_Witness ==
    /\ phase = "colour"
    /\ Len(branches) = 3
    /\ branches[1].colorIndex = 0
    /\ branches[2].colorIndex = 1
    /\ branches[1].end < branches[2].end
    /\ branchStart[3] > branches[2].end
    /\ branches[3].colorIndex = 0

\* ------------------------------------------------------------------------
\* Merge inference on its own
\* ------------------------------------------------------------------------

\* Branch names of the commit maps handed to merge inference.
MergeBranchNames == {"dev", "feature", "main"}

\* A commit's branch set in insertion order: up to MaxBranchesPerCommit
\* distinct names.
BranchSeqs ==
    {sq \in UNION {[1 .. n -> MergeBranchNames] : n \in 0 .. MaxBranchesPerCommit} :
        NoDuplicates(sq)}

\* The commit maps: two merge commits (hashes 4 and 3, newest first) over the
\* commits 1 and 2. A commit's branch set may repeat a name of its parents:
\* the combined map of an incremental build keeps the base snapshot's
\* decorations next to the newly parsed ones. Parent hash 0 is not in the map.
MergeParentChoices ==
    [c4 : {<<1, 2>>, <<3, 2>>}, c3 : {<<1, 2>>, <<1, 0>>}]

IsMergeCommitMap(m) ==
    \E ps \in MergeParentChoices, br \in [1 .. 4 -> BranchSeqs] :
        m = <<[hash |-> 4, parents |-> ps.c4, timestamp |-> 4000, branches |-> br[4]],
              [hash |-> 3, parents |-> ps.c3, timestamp |-> 3000, branches |-> br[3]],
              [hash |-> 2, parents |-> <<>>, timestamp |-> 2000, branches |-> br[2]],
              [hash |-> 1, parents |-> <<>>, timestamp |-> 1000, branches |-> br[1]]>>

\* buildBranchGraphFromCommitMap is about to be called on the commit map
\* nodes with branchSummary.current = head.
MergeInit ==
    /\ phase = "commitmap"
    /\ IsMergeCommitMap(nodes)
    /\ head \in MergeBranchNames
    /\ sortedHashes = <<>>
    /\ vParents = <<>>
    /\ vChildren = <<>>
    /\ nullChildren = <<>>
    /\ vx = <<>>
    /\ vOnBranch = <<>>
    /\ vNextParent = <<>>
    /\ vNextX = <<>>
    /\ vConnections = <<>>
    /\ branches = <<>>
    /\ availableColors = <<>>
    /\ scanI = 0
    /\ branchStart = <<>>
    /\ idle = 0
    /\ commits = <<>>
    /\ refs = <<>>
    /\ hasStorage = FALSE
    /\ stored = <<>>
    /\ index = <<>>
    /\ memCache = <<>>
    /\ pc = <<>>
    /\ loc = <<>>
    /\ ret = <<>>
    /\ memTag = 0
    /\ faults = 0
    /\ calls = 0

\* buildBranchGraphFromCommitMap(nodes, branchSummary): ret is what it returns.
BuildFromCommitMap ==
    /\ phase = "commitmap"
    /\ phase' = "graph"
    /\ ret' = BuildBranchGraphFromCommitMap(nodes,
                  [all |-> <<"dev", "feature", "main">>, current |-> head])
    /\ UNCHANGED <<nodes, sortedHashes, vParents, vChildren, nullChildren, vx, vOnBranch,
                   vNextParent, vNextX, vConnections, branches, availableColors, scanI,
                   branchStart, idle, commits, refs, head, hasStorage, stored, index,
                   memCache, pc, loc, memTag, faults, calls>>

MergeSpec == MergeInit /\ [][BuildFromCommitMap]_vars

\* The commits of the map that merge inference looks at: at least 2 parents,
\* the first two in the map.
InferenceCommits ==
    {k \in 1 .. Len(nodes) : /\ Len(nodes[k].parents) >= 2
                             /\ MapHas(nodes, nodes[k].parents[1])
                             /\ MapHas(nodes, nodes[k].parents[2])}

BranchesOf(hash) == SeqSet(MapGet(nodes, hash).branches)

\* The "to" candidates at commit k: on the commit and on parent 1, not on
\* parent 2.
ToCandidates(k) ==
    (SeqSet(nodes[k].branches) \cap BranchesOf(nodes[k].parents[1]))
        \ BranchesOf(nodes[k].parents[2])

\* The "from" candidates at commit k as the specification words them: on
\* parent 2 and not claimed as "to".
FromCandidatesAsWorded(k) == BranchesOf(nodes[k].parents[2]) \ ToCandidates(k)

\* The "from" candidates at commit k: on parent 2 and, when also on parent 1,
\* on the commit as well.
FromCandidates(k) ==
    {b \in BranchesOf(nodes[k].parents[2]) :
        b \in BranchesOf(nodes[k].parents[1]) => b \in SeqSet(nodes[k].branches)}

\* The returned merges are the edges the rule yields for the given "from"
\* candidates of each commit.
MergesFollowRule(From(_)) ==
    LET merges == ret.merges
        RowOfCommit(hash) == CHOOSE k \in 1 .. Len(nodes) : nodes[k].hash = hash
    IN  /\ \A e \in 1 .. Len(merges) :
              LET k == RowOfCommit(merges[e].commit)
              IN  /\ k \in InferenceCommits
                  /\ merges[e].to \in ToCandidates(k)
                  /\ merges[e].from \in From(k)
                  /\ head \in ToCandidates(k) => merges[e].to = head
                  /\ merges[e].from # merges[e].to
                  /\ \A d \in 1 .. Len(merges) :
                        (merges[d].from = merges[e].from /\ merges[d].to = merges[e].to)
                        => d = e
        /\ \A k \in InferenceCommits :
              (ToCandidates(k) # {} /\ From(k) # {})
              => \/ \E e \in 1 .. Len(merges) : merges[e].commit = nodes[k].hash
                 \/ \E e \in 1 .. Len(merges) :
                       /\ RowOfCommit(merges[e].commit) < k
                       /\ merges[e].from \in From(k)
                       /\ merges[e].to \in ToCandidates(k)
                       /\ head \in ToCandidates(k) => merges[e].to = head

====
